---- MODULE Spec2Model ----
(***************************************************************************)
(* Order fulfilment in minimart: the Order aggregate of internal/order     *)
(* (entity.go), its value objects (Money, DeliveryMethod, TimeWindow) and  *)
(* the domain events its methods emit.                                     *)
(*                                                                         *)
(* Conventions.  A Go pointer is a sequence of length 0 (nil) or 1 (the    *)
(* value pointed to).  An int64 is a little-endian sequence of LimbCount   *)
(* limbs in base LimbBase, in two's complement, so that Money arithmetic   *)
(* wraps exactly where the Go arithmetic wraps.  Time is counted in        *)
(* minutes; a call reads the clock once, and every reading of time.Now()   *)
(* returns a value no smaller than the previous reading.                   *)
(***************************************************************************)
EXTENDS Integers, Sequences, FiniteSets, TLC

\* ------------------------------------------------------------------ bounds
\* Longest item list handed to NewOrder.
MaxItems == 2
\* Handlers registered on the bus, over all topics.
MaxHandlers == 2
\* Publish calls made on the bus.
MaxPublishes == 1
\* PUBLISH commands given to the Redis client.
MaxCommands == 3
\* Calls made on the order use case.
MaxCalls == 3
\* Largest everyday estimate, in minutes, handed to NewTimeWindow.
MaxEstimate == 60
\* The longest street handed to NewAddress, in characters.
MaxStrLen == 2
\* The number of calls made on the MenuItem and its order items.
MaxMenuCalls == 4
\* Latest clock reading, in minutes.
MaxTime == 1

\* ------------------------------------------------------- int64 arithmetic
LimbBase == 65536
LimbCount == 4
\* Limbs of the exact (unbounded) integers the claims speak of: wide enough
\* that no sum over MaxItems + 1 items of int64 products wraps.
WideCount == LimbCount + 2

RECURSIVE AddLimbs(_, _, _)
\* a + b over Len(a) limbs with carry c; the carry out of the top limb is dropped.
AddLimbs(a, b, c) ==
    IF a = <<>> THEN <<>>
    ELSE LET s == Head(a) + Head(b) + c
         IN <<s % LimbBase>> \o AddLimbs(Tail(a), Tail(b), s \div LimbBase)

RECURSIVE MulLimbs(_, _, _)
\* a * q for a natural q < 2^14, over Len(a) limbs with carry c.
MulLimbs(a, q, c) ==
    IF a = <<>> THEN <<>>
    ELSE LET s == Head(a) * q + c
         IN <<s % LimbBase>> \o MulLimbs(Tail(a), q, s \div LimbBase)

ZeroLimbs(n) == [i \in 1..n |-> 0]
OneLimbs(n) == [i \in 1..n |-> IF i = 1 THEN 1 ELSE 0]
NotLimbs(a) == [i \in 1..Len(a) |-> LimbBase - 1 - a[i]]
NegLimbs(a) == AddLimbs(NotLimbs(a), OneLimbs(Len(a)), 0)
IsNegLimbs(a) == a[Len(a)] >= LimbBase \div 2
\* Sign extension of a to n >= Len(a) limbs: the same integer, more room.
Widen(a, n) ==
    [i \in 1..n |-> IF i <= Len(a) THEN a[i]
                    ELSE IF IsNegLimbs(a) THEN LimbBase - 1 ELSE 0]
\* The limbs of a small integer literal.
Lit(n, k) ==
    LET m == IF n < 0 THEN -n ELSE n
        p == [i \in 1..k |-> IF i = 1 THEN m % LimbBase
                             ELSE IF i = 2 THEN m \div LimbBase ELSE 0]
    IN IF n < 0 THEN NegLimbs(p) ELSE p
\* a * q for a small integer q of either sign.
TimesLimbs(a, q) ==
    IF q < 0 THEN NegLimbs(MulLimbs(a, -q, 0)) ELSE MulLimbs(a, q, 0)

Int64(n) == Lit(n, LimbCount)

\* a - b over Len(a) limbs, wrapping.
SubLimbs(a, b) == AddLimbs(a, NotLimbs(b), 1)
\* a < b for two's complement numbers of the same integer type.
LessLimbs(a, b) ==
    IsNegLimbs(SubLimbs(Widen(a, Len(a) + 1), Widen(b, Len(b) + 1)))
MaxInt64 ==
    [i \in 1..LimbCount |-> IF i = LimbCount THEN LimbBase \div 2 - 1 ELSE LimbBase - 1]
MinInt64 == [i \in 1..LimbCount |-> IF i = LimbCount THEN LimbBase \div 2 ELSE 0]
\* The int64 that a wider exact integer saturates to.
Saturate(w) ==
    IF LessLimbs(Widen(MaxInt64, Len(w)), w) THEN MaxInt64
    ELSE IF LessLimbs(w, Widen(MinInt64, Len(w))) THEN MinInt64
    ELSE SubSeq(w, 1, LimbCount)

RECURSIVE QuotFrom(_, _, _, _)
\* Schoolbook division of the natural a by a natural q < 2^15, from limb i
\* down, rem being what the limbs above i have left: the limbs 1..i of the
\* quotient.
QuotFrom(a, i, q, rem) ==
    IF i = 0 THEN <<>>
    ELSE LET cur == rem * LimbBase + a[i]
         IN Append(QuotFrom(a, i - 1, q, cur % q), cur \div q)
RECURSIVE RemFrom(_, _, _, _)
\* ... and the remainder.
RemFrom(a, i, q, rem) ==
    IF i = 0 THEN rem ELSE RemFrom(a, i - 1, q, (rem * LimbBase + a[i]) % q)
\* a / q as Go divides integers: truncated toward zero.
DivLimbs(a, q) ==
    IF IsNegLimbs(a)
    THEN LET n == NegLimbs(a) IN NegLimbs(QuotFrom(n, Len(n), q, 0))
    ELSE QuotFrom(a, Len(a), q, 0)
\* a % q for a >= 0.
ModLimbs(a, q) == RemFrom(a, Len(a), q, 0)
\* The integer that limbs hold, when it is small enough to be written down.
SmallInt(a) ==
    IF IsNegLimbs(a) THEN -(NegLimbs(a)[1] + NegLimbs(a)[2] * LimbBase)
    ELSE a[1] + a[2] * LimbBase
\* 2^62, an int64 whose double does not fit an int64.
TwoTo62 == [i \in 1..LimbCount |-> IF i = LimbCount THEN LimbBase \div 4 ELSE 0]

\* ------------------------------------------------------------------ Money
NewMoney(amountInSatoshis) == [amount |-> amountInSatoshis, currency |-> "BTC"]

\* Add panics on a currency mismatch; every Money of the model is in BTC.
Money_Add(m, other) ==
    [amount |-> AddLimbs(m.amount, other.amount, 0), currency |-> m.currency]

Money_Multiply(m, quantity) ==
    [amount |-> TimesLimbs(m.amount, quantity), currency |-> m.currency]

RECURSIVE Digits(_, _)
\* The k decimal digits of the natural n, most significant first.
Digits(n, k) == IF k = 0 THEN <<>> ELSE Append(Digits(n \div 10, k - 1), n % 10)

\* String with the unit chosen at 100,001 and 10,000,001 satoshis.
Money_String_StrictThresholds(m, tie) ==
    IF LessLimbs(Int64(10000000), m.amount)
    THEN LET whole == DivLimbs(DivLimbs(m.amount, 10000), 10000)
             back == TimesLimbs(TimesLimbs(whole, 10000), 10000)
         IN [whole |-> SmallInt(whole),
             fraction |-> Digits(SmallInt(SubLimbs(m.amount, back)), 8),
             unit |-> "BTC"]
    ELSE IF LessLimbs(Int64(100000), m.amount)
    THEN LET hundreds == DivLimbs(m.amount, 100)
             rest == ModLimbs(m.amount, 100)
             up == rest > 50 \/ (rest = 50 /\ tie = "up")
             thousandths == SmallInt(hundreds) + (IF up THEN 1 ELSE 0)
         IN [whole |-> thousandths \div 1000,
             fraction |-> Digits(thousandths % 1000, 3),
             unit |-> "mBTC"]
    ELSE [whole |-> SmallInt(m.amount), fraction |-> <<>>, unit |-> "sats"]

\* The text of String, as the number before the point, the digits after it
\* and the unit.  The amounts of the model are below 2^31, where
\* float64(amount) and the quotients by 1e8 and 1e5 are exact enough for
\* "%.8f" to print amount / 10^8 digit for digit; "%.3f" rounds
\* amount / 10^5 to thousandths, and which way an amount ending in 50 goes
\* depends on the double next to the quotient (tie).
Money_String(m, tie) ==
    IF ~LessLimbs(m.amount, Int64(10000000))
    THEN LET whole == DivLimbs(DivLimbs(m.amount, 10000), 10000)
             back == TimesLimbs(TimesLimbs(whole, 10000), 10000)
         IN [whole |-> SmallInt(whole),
             fraction |-> Digits(SmallInt(SubLimbs(m.amount, back)), 8),
             unit |-> "BTC"]
    ELSE IF ~LessLimbs(m.amount, Int64(100000))
    THEN LET hundreds == DivLimbs(m.amount, 100)
             rest == ModLimbs(m.amount, 100)
             up == rest > 50 \/ (rest = 50 /\ tie = "up")
             thousandths == SmallInt(hundreds) + (IF up THEN 1 ELSE 0)
         IN [whole |-> thousandths \div 1000,
             fraction |-> Digits(thousandths % 1000, 3),
             unit |-> "mBTC"]
    ELSE [whole |-> SmallInt(m.amount), fraction |-> <<>>, unit |-> "sats"]

\* --------------------------------------------------------- DeliveryMethod
DeliveryMethodPickup == "PICKUP"
DeliveryMethodDelivery == "DELIVERY"
\* Any other value of the integer type DeliveryMethod.
DeliveryMethodUnknown == "UNKNOWN"

DeliveryMethod_IsValid(d) == d = DeliveryMethodPickup \/ d = DeliveryMethodDelivery

\* ------------------------------------------------------------- TimeWindow
\* Go's integer division truncates toward zero.
GoDiv(a, b) == IF a >= 0 THEN a \div b ELSE -((-a) \div b)

\* a * time.Minute: a count of minutes turned into nanoseconds,
\* 60 * 1000 * 1000 * 1000 of them each, in the width of a.
TimesMinute(a) ==
    TimesLimbs(TimesLimbs(TimesLimbs(TimesLimbs(a, 60), 1000), 1000), 1000)
\* a / time.Minute, truncated.
PerMinute(a) == DivLimbs(DivLimbs(DivLimbs(DivLimbs(a, 1000), 1000), 1000), 60)

\* time.Duration(n) * time.Minute: an int64 count of nanoseconds.
Duration_Minutes(n) == TimesMinute(Int64(n))

\* t.Add(d): a clock reading (in minutes) and the nanoseconds added to it.
Time_Add(t, d) == [at |-> t, plus |-> d]

\* u.Sub(t): the difference as a Duration; a difference that no Duration
\* can hold comes back as the largest (smallest) Duration.
Time_Sub(u, t) ==
    Saturate(AddLimbs(TimesMinute(Lit(u.at - t.at, WideCount)),
                      SubLimbs(Widen(u.plus, WideCount), Widen(t.plus, WideCount)),
                      0))

NewTimeWindow(from, estimatedMinutes) ==
    LET tenth == GoDiv(estimatedMinutes, 10)
        bufferMinutes == IF tenth < 5 THEN 5 ELSE tenth
    IN <<[StartTime |-> Time_Add(from, Duration_Minutes(estimatedMinutes - bufferMinutes)),
          EndTime |-> Time_Add(from, Duration_Minutes(estimatedMinutes + bufferMinutes))]>>

\* tw.DurationMinutes(): int(tw.EndTime.Sub(tw.StartTime).Minutes()).
TimeWindow_DurationMinutes(tw) ==
    SmallInt(PerMinute(Time_Sub(tw.EndTime, tw.StartTime)))

\* ------------------------------------------------------------ Order types
OrderStatusPending == "PENDING"
OrderStatusAccepted == "ACCEPTED"
OrderStatusRejected == "REJECTED"
OrderStatusPreparing == "PREPARING"
OrderStatusReady == "READY"
OrderStatusOutForDelivery == "OUT_FOR_DELIVERY"
OrderStatusCompleted == "COMPLETED"
OrderStatusCancelled == "CANCELLED"

OrderStatuses ==
    {OrderStatusPending, OrderStatusAccepted, OrderStatusRejected,
     OrderStatusPreparing, OrderStatusReady, OrderStatusOutForDelivery,
     OrderStatusCompleted, OrderStatusCancelled}

\* validTransitions with READY -> COMPLETED left out, so that only a
\* dispatched order can be completed.
validTransitions_NoPickupCompletion ==
    [s \in OrderStatuses |->
        CASE s = OrderStatusPending ->
               <<OrderStatusAccepted, OrderStatusRejected, OrderStatusCancelled>>
          [] s = OrderStatusAccepted ->
               <<OrderStatusPreparing, OrderStatusCancelled>>
          [] s = OrderStatusPreparing ->
               <<OrderStatusReady, OrderStatusCancelled>>
          [] s = OrderStatusReady ->
               <<OrderStatusOutForDelivery, OrderStatusCancelled>>
          [] s = OrderStatusOutForDelivery ->
               <<OrderStatusCompleted, OrderStatusCancelled>>
          [] OTHER -> <<>>]

\* validTransitions with COMPLETED -> CANCELLED added.
validTransitions_CancelCompleted ==
    [s \in OrderStatuses |->
        CASE s = OrderStatusPending ->
               <<OrderStatusAccepted, OrderStatusRejected, OrderStatusCancelled>>
          [] s = OrderStatusAccepted ->
               <<OrderStatusPreparing, OrderStatusCancelled>>
          [] s = OrderStatusPreparing ->
               <<OrderStatusReady, OrderStatusCancelled>>
          [] s = OrderStatusReady ->
               <<OrderStatusOutForDelivery, OrderStatusCompleted, OrderStatusCancelled>>
          [] s = OrderStatusOutForDelivery ->
               <<OrderStatusCompleted, OrderStatusCancelled>>
          [] s = OrderStatusCompleted -> <<OrderStatusCancelled>>
          [] OTHER -> <<>>]

\* State machine for valid transitions.
validTransitions ==
    [s \in OrderStatuses |->
        CASE s = OrderStatusPending ->
               <<OrderStatusAccepted, OrderStatusRejected, OrderStatusCancelled>>
          [] s = OrderStatusAccepted ->
               <<OrderStatusPreparing, OrderStatusCancelled>>
          [] s = OrderStatusPreparing ->
               <<OrderStatusReady, OrderStatusCancelled>>
          [] s = OrderStatusReady ->
               <<OrderStatusOutForDelivery, OrderStatusCompleted, OrderStatusCancelled>>
          [] s = OrderStatusOutForDelivery ->
               <<OrderStatusCompleted, OrderStatusCancelled>>
          [] OTHER -> <<>>]

\* Errors (nil is NoErr).
NoErr == "nil"
ErrInvalidStateTransition == "invalid state transition"
ErrEmptyOrder == "order must have at least one item"
ErrInvalidQuantity == "quantity must be greater than zero"
ErrMissingMerchant == "merchant ID is required"
ErrMissingCustomer == "customer ID is required"
ErrInvalidDeliveryMethod == "invalid delivery method"
ErrDeliveryAddressRequired == "delivery address required for delivery orders"
\* The unnamed error DispatchForDelivery returns for a pickup order.
ErrOnlyDeliveryOrders == "can only dispatch delivery orders"

NilUUID == "nil"

\* ------------------------------------------------------- Order: internals
OrderItem_CalculateSubtotal(oi) == Money_Multiply(oi.PricePerItem, oi.Quantity)

\* canTransitionTo that only looks whether the current status has any way out.
canTransitionTo_AnyTarget(o, newStatus) == validTransitions[o.status] # <<>>

canTransitionTo(o, newStatus) ==
    \E i \in DOMAIN validTransitions[o.status] :
        validTransitions[o.status][i] = newStatus

\* recordStatusChange that keeps only the latest change.
recordStatusChange_KeepLast(o, newStatus, reason, changedBy, t) ==
    [o EXCEPT !.statusHistory =
        <<[From |-> o.status, To |-> newStatus, Reason |-> reason,
           ChangedAt |-> t, ChangedBy |-> changedBy]>>]

recordStatusChange(o, newStatus, reason, changedBy, t) ==
    [o EXCEPT !.statusHistory =
        Append(@, [From |-> o.status, To |-> newStatus, Reason |-> reason,
                   ChangedAt |-> t, ChangedBy |-> changedBy])]

\* What a method hands back: the aggregate as the call leaves it, the
\* returned events and the returned error.
Outcome(o, events, err) == [order |-> o, events |-> events, err |-> err]

\* The error of a refused transition wraps ErrInvalidStateTransition.
Refused(o) == Outcome(o, <<>>, ErrInvalidStateTransition)

\* A transition that returns its event without keeping it on the aggregate.
Emit_NotRecorded(o, event) == Outcome(o, <<event>>, NoErr)

\* The steps the transition methods share, in the order the code runs them:
\* set the status, record the change, touch updatedAt, append the event.
Emit(o, event) ==
    Outcome([o EXCEPT !.events = Append(@, event)], <<event>>, NoErr)

\* ------------------------------------------------------- Order: NewOrder
RECURSIVE ValidateItems_NoQuantityCheck(_, _)
\* The loop of NewOrder without its quantity check.
ValidateItems_NoQuantityCheck(items, total) ==
    IF items = <<>> THEN [err |-> NoErr, total |-> total]
    ELSE ValidateItems_NoQuantityCheck(Tail(items),
             Money_Add(total, OrderItem_CalculateSubtotal(Head(items))))

RECURSIVE ValidateItems(_, _)
\* The loop of NewOrder over the items: the first item with Quantity <= 0
\* ends it with ErrInvalidQuantity, otherwise the subtotals add up to total.
ValidateItems(items, total) ==
    IF items = <<>> THEN [err |-> NoErr, total |-> total]
    ELSE IF Head(items).Quantity <= 0
         THEN [err |-> ErrInvalidQuantity, total |-> total]
         ELSE ValidateItems(Tail(items),
                  Money_Add(total, OrderItem_CalculateSubtotal(Head(items))))

\* The address check that asks for an exact match of address and method.
AddressMissing_ExactMatch(deliveryMethod, deliveryAddress) ==
    (deliveryMethod = DeliveryMethodDelivery) # (deliveryAddress # <<>>)

\* The address check left out.
AddressMissing_Never(deliveryMethod, deliveryAddress) == FALSE

\* The address check of NewOrder: a delivery needs an address.
AddressMissing(deliveryMethod, deliveryAddress) ==
    deliveryMethod = DeliveryMethodDelivery /\ deliveryAddress = <<>>

\* BuildOrder that forgets the OrderPlaced event.
BuildOrder_NoPlacedEvent(id, customerID, merchantID, items, deliveryMethod, deliveryAddress, total, t) ==
    [id |-> id,
     customerID |-> customerID,
     merchantID |-> merchantID,
     items |-> items,
     status |-> OrderStatusPending,
     totalAmount |-> total,
     deliveryMethod |-> deliveryMethod,
     deliveryAddress |-> deliveryAddress,
     estimatedWindow |-> <<>>,
     createdAt |-> t,
     updatedAt |-> t,
     statusHistory |-> <<>>,
     events |-> <<>>]

\* The aggregate NewOrder builds once every check has passed.
BuildOrder(id, customerID, merchantID, items, deliveryMethod, deliveryAddress, total, t) ==
    LET o == [id |-> id,
              customerID |-> customerID,
              merchantID |-> merchantID,
              items |-> items,
              status |-> OrderStatusPending,
              totalAmount |-> total,
              deliveryMethod |-> deliveryMethod,
              deliveryAddress |-> deliveryAddress,
              estimatedWindow |-> <<>>,
              createdAt |-> t,
              updatedAt |-> t,
              statusHistory |-> <<>>,
              events |-> <<>>]
        placed == [name |-> "order.placed",
                   OrderID |-> id,
                   CustomerID |-> customerID,
                   MerchantID |-> merchantID,
                   TotalAmount |-> total,
                   DeliveryMethod |-> deliveryMethod,
                   PlacedAt |-> t]
    IN [o EXCEPT !.events = Append(@, placed)]

\* NewOrder returns (<<order>>, nil) or (nil, err).
NewOrder(id, customerID, merchantID, items, deliveryMethod, deliveryAddress, t) ==
    LET v == ValidateItems(items, NewMoney(Int64(0)))
    IN IF customerID = NilUUID THEN [order |-> <<>>, err |-> ErrMissingCustomer]
       ELSE IF merchantID = NilUUID THEN [order |-> <<>>, err |-> ErrMissingMerchant]
       ELSE IF Len(items) = 0 THEN [order |-> <<>>, err |-> ErrEmptyOrder]
       ELSE IF ~DeliveryMethod_IsValid(deliveryMethod)
            THEN [order |-> <<>>, err |-> ErrInvalidDeliveryMethod]
       ELSE IF AddressMissing(deliveryMethod, deliveryAddress)
            THEN [order |-> <<>>, err |-> ErrDeliveryAddressRequired]
       ELSE IF v.err # NoErr THEN [order |-> <<>>, err |-> v.err]
       ELSE [order |-> <<BuildOrder(id, customerID, merchantID, items,
                                    deliveryMethod, deliveryAddress, v.total, t)>>,
             err |-> NoErr]

\* --------------------------------------------- Order: transition methods
Order_Accept(o, estimatedMinutes, acceptedBy, t) ==
    IF ~canTransitionTo(o, OrderStatusAccepted) THEN Refused(o)
    ELSE LET o1 == [o EXCEPT !.status = OrderStatusAccepted]
             o2 == [o1 EXCEPT !.estimatedWindow = NewTimeWindow(t, estimatedMinutes)]
             o3 == recordStatusChange(o2, OrderStatusAccepted,
                                      "Order accepted by merchant", acceptedBy, t)
             o4 == [o3 EXCEPT !.updatedAt = t]
         IN Emit(o4, [name |-> "order.accepted",
                      OrderID |-> o4.id,
                      MerchantID |-> o4.merchantID,
                      CustomerID |-> o4.customerID,
                      EstimatedTime |-> o4.estimatedWindow[1].EndTime,
                      AcceptedAt |-> t])

Order_Reject(o, reason, rejectedBy, t) ==
    IF ~canTransitionTo(o, OrderStatusRejected) THEN Refused(o)
    ELSE LET o1 == [o EXCEPT !.status = OrderStatusRejected]
             o2 == recordStatusChange(o1, OrderStatusRejected, reason, rejectedBy, t)
             o3 == [o2 EXCEPT !.updatedAt = t]
         IN Emit(o3, [name |-> "order.rejected",
                      OrderID |-> o3.id,
                      MerchantID |-> o3.merchantID,
                      CustomerID |-> o3.customerID,
                      Reason |-> reason,
                      RejectedAt |-> t])

\* StartPreparing that estimates the window again when preparation starts.
Order_StartPreparing_NewWindow(o, preparedBy, t) ==
    IF ~canTransitionTo(o, OrderStatusPreparing) THEN Refused(o)
    ELSE LET o1 == [o EXCEPT !.status = OrderStatusPreparing,
                             !.estimatedWindow = NewTimeWindow(t, 15)]
             o2 == recordStatusChange(o1, OrderStatusPreparing,
                                      "Order preparation started", preparedBy, t)
             o3 == [o2 EXCEPT !.updatedAt = t]
         IN Emit(o3, [name |-> "order.preparing",
                      OrderID |-> o3.id,
                      MerchantID |-> o3.merchantID,
                      CustomerID |-> o3.customerID,
                      StartedAt |-> t])

Order_StartPreparing(o, preparedBy, t) ==
    IF ~canTransitionTo(o, OrderStatusPreparing) THEN Refused(o)
    ELSE LET o1 == [o EXCEPT !.status = OrderStatusPreparing]
             o2 == recordStatusChange(o1, OrderStatusPreparing,
                                      "Order preparation started", preparedBy, t)
             o3 == [o2 EXCEPT !.updatedAt = t]
         IN Emit(o3, [name |-> "order.preparing",
                      OrderID |-> o3.id,
                      MerchantID |-> o3.merchantID,
                      CustomerID |-> o3.customerID,
                      StartedAt |-> t])

Order_MarkReady(o, markedBy, t) ==
    IF ~canTransitionTo(o, OrderStatusReady) THEN Refused(o)
    ELSE LET o1 == [o EXCEPT !.status = OrderStatusReady]
             o2 == recordStatusChange(o1, OrderStatusReady, "Order is ready", markedBy, t)
             o3 == [o2 EXCEPT !.updatedAt = t]
         IN Emit(o3, [name |-> "order.ready",
                      OrderID |-> o3.id,
                      MerchantID |-> o3.merchantID,
                      CustomerID |-> o3.customerID,
                      DeliveryMethod |-> o3.deliveryMethod,
                      ReadyAt |-> t])

\* DispatchForDelivery without its delivery-method check.
Order_DispatchForDelivery_AnyMethod(o, driverID, t) ==
    IF ~canTransitionTo(o, OrderStatusOutForDelivery) THEN Refused(o)
    ELSE LET o1 == [o EXCEPT !.status = OrderStatusOutForDelivery]
             o2 == recordStatusChange(o1, OrderStatusOutForDelivery,
                                      "Order out for delivery", driverID, t)
             o3 == [o2 EXCEPT !.updatedAt = t]
         IN Emit(o3, [name |-> "order.out_for_delivery",
                      OrderID |-> o3.id,
                      CustomerID |-> o3.customerID,
                      DriverID |-> driverID,
                      Address |-> o3.deliveryAddress,
                      DispatchedAt |-> t])

Order_DispatchForDelivery(o, driverID, t) ==
    IF o.deliveryMethod # DeliveryMethodDelivery
    THEN Outcome(o, <<>>, ErrOnlyDeliveryOrders)
    ELSE IF ~canTransitionTo(o, OrderStatusOutForDelivery) THEN Refused(o)
    ELSE LET o1 == [o EXCEPT !.status = OrderStatusOutForDelivery]
             o2 == recordStatusChange(o1, OrderStatusOutForDelivery,
                                      "Order out for delivery", driverID, t)
             o3 == [o2 EXCEPT !.updatedAt = t]
         IN Emit(o3, [name |-> "order.out_for_delivery",
                      OrderID |-> o3.id,
                      CustomerID |-> o3.customerID,
                      DriverID |-> driverID,
                      Address |-> o3.deliveryAddress,
                      DispatchedAt |-> t])

Order_Complete(o, completedBy, t) ==
    IF ~canTransitionTo(o, OrderStatusCompleted) THEN Refused(o)
    ELSE LET o1 == [o EXCEPT !.status = OrderStatusCompleted]
             o2 == recordStatusChange(o1, OrderStatusCompleted,
                                      "Order completed", completedBy, t)
             o3 == [o2 EXCEPT !.updatedAt = t]
         IN Emit(o3, [name |-> "order.completed",
                      OrderID |-> o3.id,
                      MerchantID |-> o3.merchantID,
                      CustomerID |-> o3.customerID,
                      CompletedAt |-> t])

Order_Cancel(o, reason, cancelledBy, t) ==
    IF ~canTransitionTo(o, OrderStatusCancelled) THEN Refused(o)
    ELSE LET o1 == [o EXCEPT !.status = OrderStatusCancelled]
             o2 == recordStatusChange(o1, OrderStatusCancelled, reason, cancelledBy, t)
             o3 == [o2 EXCEPT !.updatedAt = t]
         IN Emit(o3, [name |-> "order.cancelled",
                      OrderID |-> o3.id,
                      MerchantID |-> o3.merchantID,
                      CustomerID |-> o3.customerID,
                      Reason |-> reason,
                      CancelledBy |-> cancelledBy,
                      CancelledAt |-> t])

Order_ClearEvents(o) == [o EXCEPT !.events = <<>>]

\* ---------------------------------------------------------------- Address
\* The strings given to NewAddress and WithUnit are sequences of characters;
\* Space stands for any white space character.
Space == " "
RECURSIVE TrimLeft(_)
TrimLeft(s) == IF s # <<>> /\ Head(s) = Space THEN TrimLeft(Tail(s)) ELSE s
RECURSIVE TrimRight(_)
TrimRight(s) ==
    IF s # <<>> /\ s[Len(s)] = Space THEN TrimRight(SubSeq(s, 1, Len(s) - 1)) ELSE s
TrimSpace(s) == TrimRight(TrimLeft(s))

ErrStreetRequired == "street is required"
ErrCityRequired == "city is required"
ErrStateRequired == "state is required"
ErrPostalCodeRequired == "postal code is required"
DefaultCountry == <<"U", "S", "A">>

NewAddress(street, city, state, postalCode, country) ==
    IF street = <<>> THEN [address |-> <<>>, err |-> ErrStreetRequired]
    ELSE IF city = <<>> THEN [address |-> <<>>, err |-> ErrCityRequired]
    ELSE IF state = <<>> THEN [address |-> <<>>, err |-> ErrStateRequired]
    ELSE IF postalCode = <<>> THEN [address |-> <<>>, err |-> ErrPostalCodeRequired]
    ELSE LET c == IF country = <<>> THEN DefaultCountry ELSE country
         IN [address |-> <<[street |-> TrimSpace(street),
                            city |-> TrimSpace(city),
                            state |-> TrimSpace(state),
                            postalCode |-> TrimSpace(postalCode),
                            country |-> TrimSpace(c),
                            unit |-> <<>>]>>,
             err |-> NoErr]

\* WithUnit has a pointer receiver: it writes the unit of the Address it is
\* called on and returns that same pointer.
Address_WithUnit(a, unit) == [a EXCEPT !.unit = TrimSpace(unit)]

\* --------------------------------------------------------------- MenuItem
ErrInvalidPrice == "price must be positive"
menu_ErrInvalidQuantity == "quantity must be positive"
ErrInsufficientStock == "insufficient stock available"
ErrItemNotAvailable == "item is not available"
ErrInvalidName == "item name is required"
ErrInvalidMerchant == "merchant ID is required"
ErrNegativeStockAdjustment == "stock cannot be negative"

\* stockLevel is a Go int, 64 bits wide: -1 means unlimited stock.
UnlimitedStock == Int64(-1)
\* a <= 0 for an int64.
NotPositive(a) == IsNegLimbs(a) \/ a = Int64(0)

NewMenuItem(id, merchantID, name, description, priceInSatoshis) ==
    IF merchantID = NilUUID THEN [item |-> <<>>, err |-> ErrInvalidMerchant]
    ELSE IF name = "" THEN [item |-> <<>>, err |-> ErrInvalidName]
    ELSE IF NotPositive(priceInSatoshis) THEN [item |-> <<>>, err |-> ErrInvalidPrice]
    ELSE [item |-> <<[id |-> id, merchantID |-> merchantID, name |-> name,
                      description |-> description,
                      price |-> NewMoney(priceInSatoshis),
                      stockLevel |-> UnlimitedStock,
                      isAvailable |-> TRUE]>>,
          err |-> NoErr]

MenuItem_IsAvailable(m) ==
    IF ~m.isAvailable THEN FALSE
    ELSE IF m.stockLevel = Int64(0) THEN FALSE
    ELSE TRUE

MenuItem_CanFulfillQuantity(m, quantity) ==
    IF quantity <= 0 THEN FALSE
    ELSE IF ~MenuItem_IsAvailable(m) THEN FALSE
    ELSE IF IsNegLimbs(m.stockLevel) THEN TRUE
    ELSE ~LessLimbs(m.stockLevel, Int64(quantity))

\* ReserveStock that takes the stock whether or not there is enough of it.
MenuItem_ReserveStock_Unchecked(m, quantity) ==
    IF quantity <= 0 THEN [item |-> m, err |-> menu_ErrInvalidQuantity]
    ELSE IF ~MenuItem_IsAvailable(m) THEN [item |-> m, err |-> ErrItemNotAvailable]
    ELSE IF IsNegLimbs(m.stockLevel) THEN [item |-> m, err |-> NoErr]
    ELSE [item |-> [m EXCEPT !.stockLevel = SubLimbs(m.stockLevel, Int64(quantity))],
          err |-> NoErr]

\* The methods of *MenuItem return the item as they leave it, and the error.
MenuItem_ReserveStock(m, quantity) ==
    IF quantity <= 0 THEN [item |-> m, err |-> menu_ErrInvalidQuantity]
    ELSE IF ~MenuItem_IsAvailable(m) THEN [item |-> m, err |-> ErrItemNotAvailable]
    ELSE IF IsNegLimbs(m.stockLevel) THEN [item |-> m, err |-> NoErr]
    ELSE IF LessLimbs(m.stockLevel, Int64(quantity))
         THEN [item |-> m, err |-> ErrInsufficientStock]
    ELSE [item |-> [m EXCEPT !.stockLevel = SubLimbs(m.stockLevel, Int64(quantity))],
          err |-> NoErr]

\* ReleaseStock that refuses while the item has no stock left.
MenuItem_ReleaseStock_NeedsStock(m, quantity) ==
    IF quantity <= 0 THEN [item |-> m, err |-> menu_ErrInvalidQuantity]
    ELSE IF IsNegLimbs(m.stockLevel) THEN [item |-> m, err |-> NoErr]
    ELSE IF m.stockLevel = Int64(0) THEN [item |-> m, err |-> ErrItemNotAvailable]
    ELSE [item |-> [m EXCEPT !.stockLevel = AddLimbs(m.stockLevel, Int64(quantity), 0)],
          err |-> NoErr]

MenuItem_ReleaseStock(m, quantity) ==
    IF quantity <= 0 THEN [item |-> m, err |-> menu_ErrInvalidQuantity]
    ELSE IF IsNegLimbs(m.stockLevel) THEN [item |-> m, err |-> NoErr]
    ELSE [item |-> [m EXCEPT !.stockLevel = AddLimbs(m.stockLevel, Int64(quantity), 0)],
          err |-> NoErr]

MenuItem_SetStockLevel(m, level) ==
    IF LessLimbs(level, Int64(-1)) THEN [item |-> m, err |-> ErrNegativeStockAdjustment]
    ELSE [item |-> [m EXCEPT !.stockLevel = level], err |-> NoErr]

MenuItem_MakeAvailable(m) == [m EXCEPT !.isAvailable = TRUE]
MenuItem_MakeUnavailable(m) == [m EXCEPT !.isAvailable = FALSE]

\* UpdatePrice that accepts the price and keeps the old one.
MenuItem_UpdatePrice_Ignored(m, priceInSatoshis) ==
    IF NotPositive(priceInSatoshis) THEN [item |-> m, err |-> ErrInvalidPrice]
    ELSE [item |-> m, err |-> NoErr]

MenuItem_UpdatePrice(m, priceInSatoshis) ==
    IF NotPositive(priceInSatoshis) THEN [item |-> m, err |-> ErrInvalidPrice]
    ELSE [item |-> [m EXCEPT !.price = NewMoney(priceInSatoshis)], err |-> NoErr]

MenuItem_UpdateDetails(m, name, description) ==
    IF name = "" THEN [item |-> m, err |-> ErrInvalidName]
    ELSE [item |-> [m EXCEPT !.name = name, !.description = description], err |-> NoErr]

\* CreateOrderItem that hands out the item without reserving its stock.
MenuItem_CreateOrderItem_NoReserve(m, quantity) ==
    IF quantity <= 0 THEN [item |-> m, orderItem |-> <<>>, err |-> menu_ErrInvalidQuantity]
    ELSE IF ~MenuItem_IsAvailable(m)
         THEN [item |-> m, orderItem |-> <<>>, err |-> ErrItemNotAvailable]
    ELSE IF ~MenuItem_CanFulfillQuantity(m, quantity)
         THEN [item |-> m, orderItem |-> <<>>, err |-> ErrInsufficientStock]
    ELSE [item |-> m,
          orderItem |-> <<[MenuItemID |-> m.id, MenuItemName |-> m.name,
                           Quantity |-> quantity, PricePerItem |-> m.price]>>,
          err |-> NoErr]

MenuItem_CreateOrderItem(m, quantity) ==
    IF quantity <= 0 THEN [item |-> m, orderItem |-> <<>>, err |-> menu_ErrInvalidQuantity]
    ELSE IF ~MenuItem_IsAvailable(m)
         THEN [item |-> m, orderItem |-> <<>>, err |-> ErrItemNotAvailable]
    ELSE IF ~MenuItem_CanFulfillQuantity(m, quantity)
         THEN [item |-> m, orderItem |-> <<>>, err |-> ErrInsufficientStock]
    ELSE LET r == MenuItem_ReserveStock(m, quantity)
         IN IF r.err # NoErr THEN [item |-> r.item, orderItem |-> <<>>, err |-> r.err]
            ELSE [item |-> r.item,
                  orderItem |-> <<[MenuItemID |-> r.item.id,
                                   MenuItemName |-> r.item.name,
                                   Quantity |-> quantity,
                                   PricePerItem |-> r.item.price]>>,
                  err |-> NoErr]

\* ------------------------------------------------------------------ state
VARIABLES
    order,  \* the *Order the caller holds: <<>> before NewOrder has succeeded
    now,    \* the latest reading of time.Now()
    ret     \* the last call: its name, its arguments (NewOrder) and what it returned

\* InMemoryEventBus
VARIABLES
    subscribers,  \* b.subscribers: topic -> the handlers in registration order
    mu,           \* b.mu, a sync.RWMutex
    callers,      \* the goroutines that call Publish and Subscribe: where each one is
    publishes     \* one record per Publish call: what it read, invoked and returned

\* RedisEventBus
VARIABLES
    redisClient,  \* b.client: the PUBLISH commands it was given, with their results
    redisRet      \* the last call on the RedisEventBus and what it returned

\* orderUsecase over an InMemoryOrderRepository
VARIABLES
    orders,    \* r.orders: order id -> the *Order stored under it
    heap,      \* the Order objects that exist, by address (one per NewOrder)
    requests,  \* the goroutines that call the use case: where each one is
    ucCalls    \* the number of use-case calls made so far

\* Value objects
VARIABLES
    valueRet   \* the last call of a value-object function: arguments and result

\* An Address and those that hold a pointer to it
VARIABLES
    address,         \* the Address object NewAddress allocated: <<>> before that
    addressHolders,  \* who else holds the pointer: an Order, an OrderOutForDeliveryEvent
    addressRet       \* the last call on Address: arguments and error

\* A MenuItem and what is made from it
VARIABLES
    menuItem,    \* the *MenuItem
    orderItems,  \* the OrderItems that CreateOrderItem has returned, oldest first
    menuOrder,   \* the *Order created from them: <<>> before that
    menuRet,     \* the last call on the MenuItem and what it returned
    menuCalls    \* the number of calls made so far

\* The user repository and the calls of RegisterUser
VARIABLES
    users,      \* r.users: user id -> the *User stored under it
    registers   \* the RegisterUser calls, oldest first: where each one is

orderVars == <<order, now, ret>>
valueVars == <<valueRet>>
addressVars == <<address, addressHolders, addressRet>>
menuVars == <<menuItem, orderItems, menuOrder, menuRet, menuCalls>>
busVars == <<subscribers, mu, callers, publishes>>
redisVars == <<redisClient, redisRet>>
usecaseVars == <<orders, heap, requests, ucCalls>>
userVars == <<users, registers>>
vars == <<orderVars, busVars, redisVars, usecaseVars, valueVars, addressVars, menuVars, userVars>>

\* ----------------------------------------------------------------- inputs
CustomerInputs == {NilUUID, "customer-1"}
MerchantInputs == {NilUUID, "merchant-1"}
\* What uuid.New() may return for the order id.
FreshIDs == {"order-1"}
\* Who performs a transition.
ActorInputs == {"merchant-1"}
ReasonInputs == {"out of stock"}
EstimatedMinutesInputs == {30}
DeliveryMethodInputs ==
    {DeliveryMethodPickup, DeliveryMethodDelivery, DeliveryMethodUnknown}
Address1 ==
    [street |-> "123 Main St", city |-> "San Francisco", state |-> "CA",
     postalCode |-> "94102", country |-> "USA", unit |-> ""]
AddressInputs == {<<>>, <<Address1>>}
ItemInputs ==
    {[MenuItemID |-> "burger", MenuItemName |-> "Burger", Quantity |-> 2,
      PricePerItem |-> NewMoney(Int64(25000))],
     [MenuItemID |-> "fries", MenuItemName |-> "Fries", Quantity |-> 0,
      PricePerItem |-> NewMoney(Int64(10000))],
     [MenuItemID |-> "gold", MenuItemName |-> "Gold", Quantity |-> 1,
      PricePerItem |-> NewMoney(TwoTo62)]}
ItemListInputs == UNION {[1..n -> ItemInputs] : n \in 0..MaxItems}

\* Topic strings: the one the user package publishes under, and another.
Topics == {"user.created", "other.topic"}
\* What a Handler does when it is invoked: return nil, return an error, or
\* never return.
HandlerKinds == {"ok", "err", "hang"}
ErrHandler == "handler failed"
BusCallers == {"caller-1", "caller-2"}

\* ---------------------------------------------------------------- actions
IdleCaller == [pc |-> "idle", topic |-> "", handler |-> "", pub |-> 0]

\* NewInMemoryEventBus: an empty registry and an unlocked mutex.
NewInMemoryEventBus ==
    /\ subscribers = [t \in Topics |-> <<>>]
    /\ mu = [readers |-> 0, writer |-> FALSE, waiting |-> 0]
    /\ callers = [c \in BusCallers |-> IdleCaller]
    /\ publishes = <<>>

\* NewRedisEventBus: a client that has not been used yet.
NewRedisEventBus ==
    /\ redisClient = <<>>
    /\ redisRet = [op |-> "none", topic |-> "", event |-> <<>>, err |-> NoErr,
                   invoked |-> {}]

UcRequests == {"request-1", "request-2"}

\* A goroutine that is not inside a use-case call.  ptr is the local
\* variable order; from, hist and evs are what the transition method has
\* read from the aggregate and not yet written back; plan is what the
\* method, having passed its check, is writing field by field; loaded is
\* the status the order had when FindByID returned it.
IdleRequest ==
    [pc |-> "idle", op |-> "", actor |-> "", reason |-> "", minutes |-> 0,
     ptr |-> <<>>, loaded |-> "", method |-> "", plan |-> <<>>,
     from |-> "", hist |-> <<>>, evs |-> <<>>, err |-> NoErr, saves |-> 0,
     saved |-> <<>>, stats |-> <<>>]

\* NewOrderUsecase(NewInMemoryOrderRepository()): no order stored.
NewOrderUsecase ==
    /\ orders = <<>>
    /\ heap = <<>>
    /\ requests = [q \in UcRequests |-> IdleRequest]
    /\ ucCalls = 0

\* The item of the tests: NewMenuItem(merchantID, "Burger", "", 25000).
NewMenuItemInit ==
    /\ menuItem = NewMenuItem("burger", "merchant-1", "Burger", "", Int64(25000)).item[1]
    /\ orderItems = <<>>
    /\ menuOrder = <<>>
    /\ menuRet = [op |-> "NewMenuItem", err |-> NoErr]
    /\ menuCalls = 0

\* NewUserUsecase(NewInMemoryUserRepository(), eventBus): no user stored.
NewUserUsecase ==
    /\ users = <<>>
    /\ registers = <<>>

Init ==
    /\ order = <<>>
    /\ now = 0
    /\ ret = [op |-> "none", err |-> NoErr, events |-> <<>>]
    /\ NewInMemoryEventBus
    /\ NewRedisEventBus
    /\ NewOrderUsecase
    /\ valueRet = [fn |-> "none"]
    /\ address = <<>>
    /\ addressHolders = {}
    /\ addressRet = [fn |-> "none", err |-> NoErr]
    /\ NewMenuItemInit
    /\ NewUserUsecase

\* The caller keeps what NewOrder returned; a failed call leaves it with nil.
CallNewOrder ==
    /\ order = <<>>
    /\ \E id \in FreshIDs, c \in CustomerInputs, m \in MerchantInputs,
          items \in ItemListInputs, d \in DeliveryMethodInputs,
          a \in AddressInputs, t \in now..MaxTime :
        /\ LET r == NewOrder(id, c, m, items, d, a, t)
           IN /\ order' = r.order
              /\ now' = IF r.err = NoErr THEN t ELSE now
              /\ ret' = [op |-> "NewOrder",
                         args |-> [customerID |-> c, merchantID |-> m, items |-> items,
                                   deliveryMethod |-> d, deliveryAddress |-> a],
                         err |-> r.err, events |-> <<>>]
    /\ UNCHANGED <<busVars, redisVars, usecaseVars, valueVars, addressVars, menuVars, userVars>>

\* A transition method called on the aggregate: it mutates the aggregate in
\* place and returns (events, err).  The clock is read only on success.
Call(op, r, t) ==
    /\ order' = <<r.order>>
    /\ now' = IF r.err = NoErr THEN t ELSE now
    /\ ret' = [op |-> op, err |-> r.err, events |-> r.events]
    /\ UNCHANGED <<busVars, redisVars, usecaseVars, valueVars, addressVars, menuVars, userVars>>

Accept ==
    /\ order # <<>>
    /\ \E m \in EstimatedMinutesInputs, by \in ActorInputs, t \in now..MaxTime :
        Call("Accept", Order_Accept(order[1], m, by, t), t)

Reject ==
    /\ order # <<>>
    /\ \E reason \in ReasonInputs, by \in ActorInputs, t \in now..MaxTime :
        Call("Reject", Order_Reject(order[1], reason, by, t), t)

StartPreparing ==
    /\ order # <<>>
    /\ \E by \in ActorInputs, t \in now..MaxTime :
        Call("StartPreparing", Order_StartPreparing(order[1], by, t), t)

MarkReady ==
    /\ order # <<>>
    /\ \E by \in ActorInputs, t \in now..MaxTime :
        Call("MarkReady", Order_MarkReady(order[1], by, t), t)

DispatchForDelivery ==
    /\ order # <<>>
    /\ \E by \in ActorInputs, t \in now..MaxTime :
        Call("DispatchForDelivery",
                         Order_DispatchForDelivery(order[1], by, t), t)

Complete ==
    /\ order # <<>>
    /\ \E by \in ActorInputs, t \in now..MaxTime :
        Call("Complete", Order_Complete(order[1], by, t), t)

Cancel ==
    /\ order # <<>>
    /\ \E reason \in ReasonInputs, by \in ActorInputs, t \in now..MaxTime :
        Call("Cancel", Order_Cancel(order[1], reason, by, t), t)

ClearEvents ==
    /\ order # <<>>
    /\ order' = <<Order_ClearEvents(order[1])>>
    /\ ret' = [op |-> "ClearEvents", err |-> NoErr, events |-> <<>>]
    /\ UNCHANGED now
    /\ UNCHANGED <<busVars, redisVars, usecaseVars, valueVars, addressVars, menuVars, userVars>>

Next ==
    \/ CallNewOrder
    \/ Accept
    \/ Reject
    \/ StartPreparing
    \/ MarkReady
    \/ DispatchForDelivery
    \/ Complete
    \/ Cancel
    \/ ClearEvents

Spec == Init /\ [][Next]_vars

\* ------------------------------------------------------- InMemoryEventBus
\* The Publish call of caller c.
PubOf(c) == callers[c].pub

\* b.mu.RLock() can return: no writer holds the lock and none is waiting.
CanRLock == ~mu.writer /\ mu.waiting = 0
\* b.mu.Lock() can return: nobody holds the lock.
CanLock == ~mu.writer /\ mu.readers = 0

\* Handlers registered, or about to be by a Subscribe call under way.
HandlersInPlay ==
    Len(subscribers["user.created"]) + Len(subscribers["other.topic"])
        + Cardinality({c \in BusCallers : callers[c].pc = "Lock"})

\* The number of Subscribe calls for topic t that have returned: each has
\* appended one handler, and so has the one that is about to unlock.
SubscribedTo(t) ==
    Len(subscribers[t])
        - Cardinality({c \in BusCallers : callers[c].pc = "Unlock" /\ callers[c].topic = t})

\* A goroutine calls b.Publish(ctx, event) with an event of some topic; the
\* call is remembered with the number of subscriptions made before it.
BusPublishCall(c) ==
    /\ callers[c].pc = "idle"
    /\ Len(publishes) < MaxPublishes
    /\ \E t \in Topics :
        /\ publishes' = Append(publishes,
              [topic |-> t, handlers |-> <<>>, next |-> 1, invoked |-> <<>>,
               state |-> <<>>, logged |-> 0, err |-> NoErr, returned |-> FALSE,
               before |-> SubscribedTo(t)])
        /\ callers' = [callers EXCEPT ![c] =
              [pc |-> "RLock", topic |-> t, handler |-> "", pub |-> Len(publishes) + 1]]
    /\ UNCHANGED <<subscribers, mu>>
    /\ UNCHANGED <<orderVars, redisVars, usecaseVars, valueVars, addressVars, menuVars, userVars>>

\* b.mu.RLock(); handlers, found := b.subscribers[event.Topic()];
\* if !found the call is on its way out.
BusPublishRLock(c) ==
    /\ callers[c].pc = "RLock"
    /\ CanRLock
    /\ mu' = [mu EXCEPT !.readers = @ + 1]
    /\ LET hs == subscribers[callers[c].topic]
           found == hs # <<>>
       IN /\ publishes' = [publishes EXCEPT ![PubOf(c)] =
                [@ EXCEPT !.handlers = hs,
                          !.invoked = [i \in 1..Len(hs) |-> 0],
                          !.state = [i \in 1..Len(hs) |-> "none"]]]
          /\ callers' = [callers EXCEPT ![c].pc = IF found THEN "loop" ELSE "return"]
    /\ UNCHANGED subscribers
    /\ UNCHANGED <<orderVars, redisVars, usecaseVars, valueVars, addressVars, menuVars, userVars>>

\* Sequential dispatch: the loop calls the next handler itself.
BusPublishInvoke(c) ==
    /\ callers[c].pc = "loop"
    /\ LET i == publishes[PubOf(c)].next
       IN publishes' = [publishes EXCEPT ![PubOf(c)] =
            [@ EXCEPT !.invoked[i] = @ + 1, !.state[i] = "running"]]
    /\ callers' = [callers EXCEPT ![c].pc = "handling"]
    /\ UNCHANGED <<subscribers, mu>>
    /\ UNCHANGED <<orderVars, redisVars, usecaseVars, valueVars, addressVars, menuVars, userVars>>

\* Handlers that call the bus they were invoked by, and return nil once that
\* call has returned (pc "handled").
ReentrantKinds == {"subscribes", "publishes"}

\* Sequential dispatch: the handler returns; an error ends the loop and is
\* the result of Publish, nil lets the loop go on.
BusHandlerReturn(c) ==
    /\ callers[c].pc \in {"handling", "handled"}
    /\ LET k == PubOf(c)
           i == publishes[k].next
           kind == publishes[k].handlers[i]
       IN /\ kind # "hang"
          /\ kind \in ReentrantKinds => callers[c].pc = "handled"
          /\ IF kind = "err"
             THEN /\ publishes' = [publishes EXCEPT ![k] =
                        [@ EXCEPT !.state[i] = "returned", !.err = ErrHandler]]
                  /\ callers' = [callers EXCEPT ![c].pc = "return"]
             ELSE /\ publishes' = [publishes EXCEPT ![k] =
                        [@ EXCEPT !.state[i] = "returned", !.next = i + 1]]
                  /\ callers' = [callers EXCEPT ![c].pc =
                        IF i + 1 > Len(publishes[k].handlers) THEN "return" ELSE "loop"]
    /\ UNCHANGED <<subscribers, mu>>
    /\ UNCHANGED <<orderVars, redisVars, usecaseVars, valueVars, addressVars, menuVars, userVars>>

\* Goroutine dispatch: the loop starts a goroutine for the next handler and
\* goes on.
BusPublishSpawn(c) ==
    /\ callers[c].pc = "loop"
    /\ LET k == PubOf(c)
           i == publishes[k].next
       IN /\ publishes' = [publishes EXCEPT ![k] =
                [@ EXCEPT !.state[i] = "spawned", !.next = i + 1]]
          /\ callers' = [callers EXCEPT ![c].pc =
                IF i + 1 > Len(publishes[k].handlers) THEN "return" ELSE "loop"]
    /\ UNCHANGED <<subscribers, mu>>
    /\ UNCHANGED <<orderVars, redisVars, usecaseVars, valueVars, addressVars, menuVars, userVars>>

\* Goroutine dispatch: a started goroutine gets to run and calls its handler.
BusGoroutineRun(k, i) ==
    /\ publishes[k].state[i] = "spawned"
    /\ publishes' = [publishes EXCEPT ![k] =
          [@ EXCEPT !.invoked[i] = @ + 1, !.state[i] = "running"]]
    /\ UNCHANGED <<subscribers, mu, callers>>
    /\ UNCHANGED <<orderVars, redisVars, usecaseVars, valueVars, addressVars, menuVars, userVars>>

\* Goroutine dispatch: the handler returns; an error is logged.
BusGoroutineReturn(k, i) ==
    /\ publishes[k].state[i] = "running"
    /\ publishes[k].handlers[i] # "hang"
    /\ publishes' = [publishes EXCEPT ![k] =
          [@ EXCEPT !.state[i] = "returned",
                    !.logged = @ + (IF publishes[k].handlers[i] = "err" THEN 1 ELSE 0)]]
    /\ UNCHANGED <<subscribers, mu, callers>>
    /\ UNCHANGED <<orderVars, redisVars, usecaseVars, valueVars, addressVars, menuVars, userVars>>

\* The goroutine is inside a RegisterUser call that has not returned.
InRegisterUser(c) ==
    \E i \in 1..Len(registers) :
        registers[i].caller = c /\ ~registers[i].returned

\* Publish returns: the deferred b.mu.RUnlock() runs and the caller has the
\* result.  A Publish called by RegisterUser returns into it.
BusPublishReturn(c) ==
    /\ callers[c].pc = "return"
    /\ ~InRegisterUser(c)
    /\ mu' = [mu EXCEPT !.readers = @ - 1]
    /\ publishes' = [publishes EXCEPT ![PubOf(c)].returned = TRUE]
    /\ callers' = [callers EXCEPT ![c] = IdleCaller]
    /\ UNCHANGED subscribers
    /\ UNCHANGED <<orderVars, redisVars, usecaseVars, valueVars, addressVars, menuVars, userVars>>

\* A goroutine calls b.Subscribe(topic, handler) and asks for the lock.
BusSubscribeCall(c) ==
    /\ callers[c].pc = "idle"
    /\ HandlersInPlay < MaxHandlers
    /\ \E t \in Topics, h \in HandlerKinds :
        callers' = [callers EXCEPT ![c] =
            [pc |-> "Lock", topic |-> t, handler |-> h, pub |-> 0]]
    /\ mu' = [mu EXCEPT !.waiting = @ + 1]
    /\ UNCHANGED <<subscribers, publishes>>
    /\ UNCHANGED <<orderVars, redisVars, usecaseVars, valueVars, addressVars, menuVars, userVars>>

\* Subscribe that appends the handler to the list of every topic.
BusSubscribeLock_AllTopics(c) ==
    /\ callers[c].pc \in {"Lock", "h.Lock"}
    /\ CanLock
    /\ mu' = [mu EXCEPT !.writer = TRUE, !.waiting = @ - 1]
    /\ subscribers' = [t \in Topics |-> Append(subscribers[t], callers[c].handler)]
    /\ callers' = [callers EXCEPT ![c].pc =
          IF callers[c].pc = "Lock" THEN "Unlock" ELSE "h.Unlock"]
    /\ UNCHANGED publishes
    /\ UNCHANGED <<orderVars, redisVars, usecaseVars, valueVars, addressVars, menuVars, userVars>>

\* b.mu.Lock() returns and the handler is appended to its topic's list.
BusSubscribeLock(c) ==
    /\ callers[c].pc \in {"Lock", "h.Lock"}
    /\ CanLock
    /\ mu' = [mu EXCEPT !.writer = TRUE, !.waiting = @ - 1]
    /\ subscribers' = [subscribers EXCEPT ![callers[c].topic] =
          Append(@, callers[c].handler)]
    /\ callers' = [callers EXCEPT ![c].pc =
          IF callers[c].pc = "Lock" THEN "Unlock" ELSE "h.Unlock"]
    /\ UNCHANGED publishes
    /\ UNCHANGED <<orderVars, redisVars, usecaseVars, valueVars, addressVars, menuVars, userVars>>

\* Subscribe returns nil: the deferred b.mu.Unlock() runs.  A call made
\* from inside a handler returns into that handler.
BusSubscribeReturn(c) ==
    /\ callers[c].pc \in {"Unlock", "h.Unlock"}
    /\ mu' = [mu EXCEPT !.writer = FALSE]
    /\ callers' = [callers EXCEPT ![c] =
          IF callers[c].pc = "Unlock" THEN IdleCaller
          ELSE [callers[c] EXCEPT !.pc = "handled"]]
    /\ UNCHANGED <<subscribers, publishes>>
    /\ UNCHANGED <<orderVars, redisVars, usecaseVars, valueVars, addressVars, menuVars, userVars>>

\* The bus of internal/shared/eventbus/in_memory.go.
NextBusSequential ==
    \/ \E c \in BusCallers : BusPublishCall(c)
    \/ \E c \in BusCallers : BusPublishRLock(c)
    \/ \E c \in BusCallers : BusPublishInvoke(c)
    \/ \E c \in BusCallers : BusHandlerReturn(c)
    \/ \E c \in BusCallers : BusPublishReturn(c)
    \/ \E c \in BusCallers : BusSubscribeCall(c)
    \/ \E c \in BusCallers : BusSubscribeLock(c)
    \/ \E c \in BusCallers : BusSubscribeReturn(c)

SpecBusSequential == Init /\ [][NextBusSequential]_vars

\* ------------------------------------------------------------ userUsecase
MaxRegisters == 2
EmailInputs == {"ann@example.com", "bob@example.com"}
UserCreatedTopic == "user.created"
ErrEmailExists == "User with this email already exists"

\* r.Save(ctx, user): the error, given the users stored.
InMemoryUserRepository_Save(user) ==
    IF \E id \in DOMAIN users : users[id].Email = user.Email
    THEN ErrEmailExists ELSE NoErr

\* The RegisterUser call of caller c that has not returned.
RegisterOf(c) ==
    CHOOSE i \in 1..Len(registers) :
        registers[i].caller = c /\ ~registers[i].returned

\* RegisterUser(ctx, name, email) up to the call of u.eventBus.Publish: the
\* user is built and saved; a Save error is returned at once, otherwise the
\* goroutine calls Publish with the UserCreatedEvent.
UserRegisterCall(c) ==
    /\ callers[c].pc = "idle"
    /\ Len(registers) < MaxRegisters
    /\ \E email \in EmailInputs :
        LET user == [ID |-> Len(registers) + 1, Name |-> "Ann", Email |-> email]
            err == InMemoryUserRepository_Save(user)
        IN IF err # NoErr
           THEN /\ registers' = Append(registers,
                      [caller |-> c, built |-> user, saved |-> FALSE, pub |-> 0,
                       returned |-> TRUE, user |-> <<>>, err |-> err])
                /\ UNCHANGED <<users, callers, publishes>>
           ELSE /\ users' = [id \in DOMAIN users \cup {user.ID} |->
                                IF id = user.ID THEN user ELSE users[id]]
                /\ registers' = Append(registers,
                      [caller |-> c, built |-> user, saved |-> TRUE,
                       pub |-> Len(publishes) + 1,
                       returned |-> FALSE, user |-> <<>>, err |-> NoErr])
                /\ publishes' = Append(publishes,
                      [topic |-> UserCreatedTopic, handlers |-> <<>>, next |-> 1,
                       invoked |-> <<>>, state |-> <<>>, logged |-> 0,
                       err |-> NoErr, returned |-> FALSE,
                       before |-> SubscribedTo(UserCreatedTopic)])
                /\ callers' = [callers EXCEPT ![c] =
                      [pc |-> "RLock", topic |-> UserCreatedTopic, handler |-> "",
                       pub |-> Len(publishes) + 1]]
    /\ UNCHANGED <<subscribers, mu>>
    /\ UNCHANGED <<orderVars, redisVars, usecaseVars, valueVars, addressVars, menuVars>>

\* Publish returns into RegisterUser (the deferred b.mu.RUnlock() runs):
\* an error of Publish is returned with a nil user, nil lets RegisterUser
\* return the user.
UserRegisterReturn(c) ==
    /\ callers[c].pc = "return"
    /\ InRegisterUser(c)
    /\ mu' = [mu EXCEPT !.readers = @ - 1]
    /\ publishes' = [publishes EXCEPT ![PubOf(c)].returned = TRUE]
    /\ callers' = [callers EXCEPT ![c] = IdleCaller]
    /\ LET i == RegisterOf(c)
           err == publishes[PubOf(c)].err
       IN registers' = [registers EXCEPT ![i] =
             [@ EXCEPT !.returned = TRUE, !.err = err,
                       !.user = IF err # NoErr THEN <<>> ELSE <<registers[i].built>>]]
    /\ UNCHANGED <<subscribers, users>>
    /\ UNCHANGED <<orderVars, redisVars, usecaseVars, valueVars, addressVars, menuVars>>

\* The user use case on the bus of internal/shared/eventbus/in_memory.go.
NextUser ==
    \/ NextBusSequential
    \/ \E c \in BusCallers : UserRegisterCall(c)
    \/ \E c \in BusCallers : UserRegisterReturn(c)

SpecUser == Init /\ [][NextUser]_vars

\* The bus with one goroutine per handler.
NextBusGoroutine ==
    \/ \E c \in BusCallers : BusPublishCall(c)
    \/ \E c \in BusCallers : BusPublishRLock(c)
    \/ \E c \in BusCallers : BusPublishSpawn(c)
    \/ \E k \in DOMAIN publishes : \E i \in DOMAIN publishes[k].handlers :
            BusGoroutineRun(k, i)
    \/ \E k \in DOMAIN publishes : \E i \in DOMAIN publishes[k].handlers :
            BusGoroutineReturn(k, i)
    \/ \E c \in BusCallers : BusPublishReturn(c)
    \/ \E c \in BusCallers : BusSubscribeCall(c)
    \/ \E c \in BusCallers : BusSubscribeLock(c)
    \/ \E c \in BusCallers : BusSubscribeReturn(c)

SpecBusGoroutine == Init /\ [][NextBusGoroutine]_vars

\* A goroutine subscribes a handler that will call the bus itself.
BusSubscribeReentrantCall(c) ==
    /\ callers[c].pc = "idle"
    /\ HandlersInPlay < MaxHandlers
    /\ \E t \in Topics, h \in ReentrantKinds :
        callers' = [callers EXCEPT ![c] =
            [pc |-> "Lock", topic |-> t, handler |-> h, pub |-> 0]]
    /\ mu' = [mu EXCEPT !.waiting = @ + 1]
    /\ UNCHANGED <<subscribers, publishes>>
    /\ UNCHANGED <<orderVars, redisVars, usecaseVars, valueVars, addressVars, menuVars, userVars>>

\* The handler being invoked calls b.Subscribe("other.topic", h) with a
\* plain handler h, and asks for the lock.
BusHandlerSubscribe(c) ==
    /\ callers[c].pc = "handling"
    /\ publishes[PubOf(c)].handlers[publishes[PubOf(c)].next] = "subscribes"
    /\ callers' = [callers EXCEPT ![c] =
          [@ EXCEPT !.pc = "h.Lock", !.topic = "other.topic", !.handler = "ok"]]
    /\ mu' = [mu EXCEPT !.waiting = @ + 1]
    /\ UNCHANGED <<subscribers, publishes>>
    /\ UNCHANGED <<orderVars, redisVars, usecaseVars, valueVars, addressVars, menuVars, userVars>>

\* The handler being invoked calls b.Publish with an event of a topic that
\* nobody has subscribed to.
BusHandlerPublish(c) ==
    /\ callers[c].pc = "handling"
    /\ publishes[PubOf(c)].handlers[publishes[PubOf(c)].next] = "publishes"
    /\ callers' = [callers EXCEPT ![c].pc = "h.RLock"]
    /\ UNCHANGED <<subscribers, mu, publishes>>
    /\ UNCHANGED <<orderVars, redisVars, usecaseVars, valueVars, addressVars, menuVars, userVars>>

\* ... b.mu.RLock() returns in that inner Publish, which finds no handlers ...
BusHandlerPublishRLock(c) ==
    /\ callers[c].pc = "h.RLock"
    /\ CanRLock
    /\ mu' = [mu EXCEPT !.readers = @ + 1]
    /\ callers' = [callers EXCEPT ![c].pc = "h.RUnlock"]
    /\ UNCHANGED <<subscribers, publishes>>
    /\ UNCHANGED <<orderVars, redisVars, usecaseVars, valueVars, addressVars, menuVars, userVars>>

\* ... and returns nil into the handler, unlocking.
BusHandlerPublishReturn(c) ==
    /\ callers[c].pc = "h.RUnlock"
    /\ mu' = [mu EXCEPT !.readers = @ - 1]
    /\ callers' = [callers EXCEPT ![c].pc = "handled"]
    /\ UNCHANGED <<subscribers, publishes>>
    /\ UNCHANGED <<orderVars, redisVars, usecaseVars, valueVars, addressVars, menuVars, userVars>>

\* The bus of in_memory.go with handlers that use the bus.
NextBusReentrant ==
    \/ NextBusSequential
    \/ \E c \in BusCallers : BusSubscribeReentrantCall(c)
    \/ \E c \in BusCallers : BusHandlerSubscribe(c)
    \/ \E c \in BusCallers : BusHandlerPublish(c)
    \/ \E c \in BusCallers : BusHandlerPublishRLock(c)
    \/ \E c \in BusCallers : BusHandlerPublishReturn(c)

SpecBusReentrant == Init /\ [][NextBusReentrant]_vars

\* ---------------------------------------------------------- RedisEventBus
ErrMarshal == "failed to marshal event"
ErrTransmission == "redis: PUBLISH failed"
ErrSubscribeNotImplemented == "Subscribe is not implemented for RedisEventBus"

\* Events handed to Publish: a topic, a body, and whether json.Marshal can
\* encode the value.
EventInputs ==
    [topic : Topics, body : {"user-1", "user-2"}, encodable : BOOLEAN]
\* Handlers handed to Subscribe.
HandlerInputs == {"handler-1", "handler-2"}
\* What the PUBLISH command may come back with.
CmdResults == {NoErr, ErrTransmission}

\* json.Marshal(event): the payload (nil on error) and the error.
Marshal(event) ==
    IF event.encodable
    THEN [payload |-> <<"json", event.body>>, err |-> NoErr]
    ELSE [payload |-> <<>>, err |-> "json: unsupported value"]

\* Publish that forgets the result of the command.
RedisEventBus_Publish_DropsResult(event, cmdErr) ==
    LET m == Marshal(event)
    IN IF m.err # NoErr
       THEN [commands |-> <<>>, err |-> ErrMarshal]
       ELSE [commands |-> <<[channel |-> event.topic, payload |-> m.payload,
                             err |-> cmdErr]>>,
             err |-> NoErr]

\* Publish: marshal, and on success give one PUBLISH command to the client
\* and return its Err(); cmdErr is what that command comes back with.
RedisEventBus_Publish(event, cmdErr) ==
    LET m == Marshal(event)
    IN IF m.err # NoErr
       THEN [commands |-> <<>>, err |-> ErrMarshal]
       ELSE [commands |-> <<[channel |-> event.topic, payload |-> m.payload,
                             err |-> cmdErr]>>,
             err |-> cmdErr]

\* Subscribe that accepts the handler.
RedisEventBus_Subscribe_Accepts(topic, handler) == NoErr

\* Subscribe: nothing but the error.
RedisEventBus_Subscribe(topic, handler) == ErrSubscribeNotImplemented

RedisPublish ==
    /\ Len(redisClient) < MaxCommands
    /\ \E e \in EventInputs, cmdErr \in CmdResults :
        LET r == RedisEventBus_Publish(e, cmdErr)
        IN /\ redisClient' = redisClient \o r.commands
           /\ redisRet' = [op |-> "Publish", topic |-> e.topic, event |-> <<e>>,
                           err |-> r.err, invoked |-> {}]
    /\ UNCHANGED <<orderVars, busVars, usecaseVars, valueVars, addressVars, menuVars, userVars>>

RedisSubscribe ==
    /\ \E t \in Topics, h \in HandlerInputs :
        redisRet' = [op |-> "Subscribe", topic |-> t, event |-> <<>>,
                     err |-> RedisEventBus_Subscribe(t, h), invoked |-> {}]
    /\ UNCHANGED redisClient
    /\ UNCHANGED <<orderVars, busVars, usecaseVars, valueVars, addressVars, menuVars, userVars>>

NextRedis ==
    \/ RedisPublish
    \/ RedisSubscribe

SpecRedis == Init /\ [][NextRedis]_vars

\* ----------------------------------------------------------- orderUsecase
ErrOrderNotFound == "order not found"
ErrNotOwner == "unauthorized: merchant does not own this order"
ErrCannotCancel == "unauthorized: user cannot cancel this order"

\* The transition operations of the use case.
UcTransitionOps ==
    {"AcceptOrder", "RejectOrder", "StartPreparing", "MarkReady",
     "MarkOutForDelivery", "CompleteOrder", "CancelOrder"}
\* Who calls: the order's customer, its merchant, another merchant.
UserInputs == {"customer-1", "merchant-1", "merchant-2"}
\* The order id the transition operations are called with.
OrderIDInputs == FreshIDs
\* What PlaceOrder is called with: a pickup order, a delivery order, and an
\* order without items.
Burger ==
    [MenuItemID |-> "burger", MenuItemName |-> "Burger", Quantity |-> 2,
     PricePerItem |-> NewMoney(Int64(25000))]
PlaceInputs ==
    {[items |-> <<Burger>>, deliveryMethod |-> DeliveryMethodPickup,
      deliveryAddress |-> <<>>],
     [items |-> <<Burger>>, deliveryMethod |-> DeliveryMethodDelivery,
      deliveryAddress |-> <<Address1>>],
     [items |-> <<>>, deliveryMethod |-> DeliveryMethodPickup,
      deliveryAddress |-> <<>>]}

\* r.FindByID(ctx, id): the stored pointer, or nil.
InMemoryOrderRepository_FindByID(id) ==
    IF id \in DOMAIN orders THEN <<orders[id]>> ELSE <<>>

\* r.Save(ctx, order): r.orders[order.ID()] = order, given the address of
\* the object and the heap to read its id from.
InMemoryOrderRepository_Save(a, h) ==
    [id \in DOMAIN orders \cup {h[a].id} |->
        IF id = h[a].id THEN a ELSE orders[id]]

\* The ownership check that lets everybody cancel.
AuthorizationError_AnyoneCancels(op, o, userID) ==
    IF op = "CancelOrder" THEN NoErr
    ELSE IF o.merchantID # userID THEN ErrNotOwner ELSE NoErr

\* The ownership check of the transition operations.
AuthorizationError(op, o, userID) ==
    IF op = "CancelOrder"
    THEN IF o.customerID # userID /\ o.merchantID # userID
         THEN ErrCannotCancel ELSE NoErr
    ELSE IF o.merchantID # userID THEN ErrNotOwner ELSE NoErr

\* The method of the aggregate an operation calls.
MethodOf(op) ==
    CASE op = "AcceptOrder" -> "Accept"
      [] op = "RejectOrder" -> "Reject"
      [] op = "StartPreparing" -> "StartPreparing"
      [] op = "MarkReady" -> "MarkReady"
      [] op = "MarkOutForDelivery" -> "MarkReady"
      [] op = "CompleteOrder" -> "Complete"
      [] op = "CancelOrder" -> "Cancel"

\* The call of that method on the aggregate o, for request r at time t.
DomainCall(r, o, t) ==
    CASE r.op = "AcceptOrder" -> Order_Accept(o, r.minutes, r.actor, t)
      [] r.op = "RejectOrder" -> Order_Reject(o, r.reason, r.actor, t)
      [] r.op = "StartPreparing" -> Order_StartPreparing(o, r.actor, t)
      [] r.op = "MarkReady" -> Order_MarkReady(o, r.actor, t)
      [] r.op = "MarkOutForDelivery" -> Order_MarkReady(o, r.actor, t)
      [] r.op = "CompleteOrder" -> Order_Complete(o, r.actor, t)
      [] r.op = "CancelOrder" -> Order_Cancel(o, r.reason, r.actor, t)

\* A transition method that checks the status its caller loaded.
MethodRun_OnLoadedStatus(q) ==
    DomainCall(requests[q],
               [heap[requests[q].ptr[1]] EXCEPT !.status = requests[q].loaded], now)

\* The transition method of request q, run on the aggregate as it is now:
\* its check, and what it goes on to write if the check passes.
MethodRun(q) == DomainCall(requests[q], heap[requests[q].ptr[1]], now)

\* The aggregate the request holds.
Held(q) == requests[q].ptr[1]

\* PlaceOrder: NewOrder, then Save; the new object is reachable by nobody
\* else before Save has stored it.
UcPlaceOrder(q) ==
    /\ requests[q].pc \in {"idle", "done"}
    /\ ucCalls < MaxCalls
    /\ \E id \in FreshIDs \ DOMAIN heap, in \in PlaceInputs :
        LET r == NewOrder(id, "customer-1", "merchant-1", in.items,
                          in.deliveryMethod, in.deliveryAddress, now)
        IN IF r.err # NoErr
           THEN /\ requests' = [requests EXCEPT ![q] =
                      [IdleRequest EXCEPT !.pc = "done", !.op = "PlaceOrder",
                                          !.err = r.err]]
                /\ UNCHANGED <<orders, heap>>
           ELSE /\ heap' = [a \in DOMAIN heap \cup {id} |->
                              IF a = id THEN r.order[1] ELSE heap[a]]
                /\ orders' = InMemoryOrderRepository_Save(id, heap')
                /\ requests' = [requests EXCEPT ![q] =
                      [IdleRequest EXCEPT !.pc = "done", !.op = "PlaceOrder",
                                          !.ptr = <<id>>, !.saves = 1,
                                          !.saved = <<NoErr>>]]
    /\ ucCalls' = ucCalls + 1
    /\ UNCHANGED <<orderVars, busVars, redisVars, valueVars, addressVars, menuVars, userVars>>

\* A goroutine calls one of the transition operations.
UcCall(q) ==
    /\ requests[q].pc \in {"idle", "done"}
    /\ ucCalls < MaxCalls
    /\ \E op \in UcTransitionOps, u \in UserInputs,
          reason \in ReasonInputs, m \in EstimatedMinutesInputs :
        requests' = [requests EXCEPT ![q] =
            [IdleRequest EXCEPT !.pc = "load", !.op = op, !.actor = u,
                                !.reason = reason, !.minutes = m]]
    /\ ucCalls' = ucCalls + 1
    /\ UNCHANGED <<orders, heap>>
    /\ UNCHANGED <<orderVars, busVars, redisVars, valueVars, addressVars, menuVars, userVars>>

\* Load the order, the nil check and the ownership check.
UcLoad(q) ==
    /\ requests[q].pc = "load"
    /\ \E id \in OrderIDInputs :
        LET found == InMemoryOrderRepository_FindByID(id)
        IN IF found = <<>>
           THEN requests' = [requests EXCEPT ![q].pc = "done",
                                             ![q].err = ErrOrderNotFound]
           ELSE LET o == heap[found[1]]
                    authErr == AuthorizationError(requests[q].op, o, requests[q].actor)
                IN requests' = [requests EXCEPT
                      ![q].ptr = found,
                      ![q].loaded = o.status,
                      ![q].pc = IF authErr # NoErr THEN "done" ELSE "method",
                      ![q].err = authErr]
    /\ UNCHANGED <<orders, heap, ucCalls>>
    /\ UNCHANGED <<orderVars, busVars, redisVars, valueVars, addressVars, menuVars, userVars>>

\* An operation that goes on to Save when the method has refused.
UcMethodCheck_SavesAnyway(q) ==
    /\ requests[q].pc = "method"
    /\ LET r == MethodRun(q)
       IN IF r.err # NoErr
          THEN requests' = [requests EXCEPT ![q].method = MethodOf(requests[q].op),
                                            ![q].pc = "save",
                                            ![q].err = r.err]
          ELSE requests' = [requests EXCEPT ![q].method = MethodOf(requests[q].op),
                                            ![q].pc = "status",
                                            ![q].plan = <<r>>]
    /\ UNCHANGED <<orders, heap, ucCalls>>
    /\ UNCHANGED <<orderVars, busVars, redisVars, valueVars, addressVars, menuVars, userVars>>

\* The transition method is called and makes its check: refused, the
\* operation returns the error; passed, the method goes on to its writes.
UcMethodCheck(q) ==
    /\ requests[q].pc = "method"
    /\ LET r == MethodRun(q)
       IN IF r.err # NoErr
          THEN requests' = [requests EXCEPT ![q].method = MethodOf(requests[q].op),
                                            ![q].pc = "done",
                                            ![q].err = r.err]
          ELSE requests' = [requests EXCEPT ![q].method = MethodOf(requests[q].op),
                                            ![q].pc = "status",
                                            ![q].plan = <<r>>]
    /\ UNCHANGED <<orders, heap, ucCalls>>
    /\ UNCHANGED <<orderVars, busVars, redisVars, valueVars, addressVars, menuVars, userVars>>

\* o.status = <the new status>
UcSetStatus(q) ==
    /\ requests[q].pc = "status"
    /\ heap' = [heap EXCEPT ![Held(q)].status = requests[q].plan[1].order.status]
    /\ requests' = [requests EXCEPT ![q].pc =
          IF requests[q].method = "Accept" THEN "window" ELSE "record"]
    /\ UNCHANGED <<orders, ucCalls>>
    /\ UNCHANGED <<orderVars, busVars, redisVars, valueVars, addressVars, menuVars, userVars>>

\* Accept: o.estimatedWindow = &window
UcSetWindow(q) ==
    /\ requests[q].pc = "window"
    /\ heap' = [heap EXCEPT ![Held(q)].estimatedWindow =
          requests[q].plan[1].order.estimatedWindow]
    /\ requests' = [requests EXCEPT ![q].pc = "record"]
    /\ UNCHANGED <<orders, ucCalls>>
    /\ UNCHANGED <<orderVars, busVars, redisVars, valueVars, addressVars, menuVars, userVars>>

\* recordStatusChange reads o.status and o.statusHistory ...
UcRecordRead(q) ==
    /\ requests[q].pc = "record"
    /\ requests' = [requests EXCEPT ![q].from = heap[Held(q)].status,
                                    ![q].hist = heap[Held(q)].statusHistory,
                                    ![q].pc = "recordWrite"]
    /\ UNCHANGED <<orders, heap, ucCalls>>
    /\ UNCHANGED <<orderVars, busVars, redisVars, valueVars, addressVars, menuVars, userVars>>

\* ... and assigns the appended slice to o.statusHistory.
UcRecordWrite(q) ==
    /\ requests[q].pc = "recordWrite"
    /\ LET planned == requests[q].plan[1].order.statusHistory
           change == [planned[Len(planned)] EXCEPT !.From = requests[q].from]
       IN heap' = [heap EXCEPT ![Held(q)].statusHistory =
                      Append(requests[q].hist, change)]
    /\ requests' = [requests EXCEPT ![q].from = "", ![q].hist = <<>>,
                                    ![q].pc = "touch"]
    /\ UNCHANGED <<orders, ucCalls>>
    /\ UNCHANGED <<orderVars, busVars, redisVars, valueVars, addressVars, menuVars, userVars>>

\* o.updatedAt = time.Now()
UcTouch(q) ==
    /\ requests[q].pc = "touch"
    /\ heap' = [heap EXCEPT ![Held(q)].updatedAt = requests[q].plan[1].order.updatedAt]
    /\ requests' = [requests EXCEPT ![q].pc = "event"]
    /\ UNCHANGED <<orders, ucCalls>>
    /\ UNCHANGED <<orderVars, busVars, redisVars, valueVars, addressVars, menuVars, userVars>>

\* o.events = append(o.events, event): the read ...
UcEventRead(q) ==
    /\ requests[q].pc = "event"
    /\ requests' = [requests EXCEPT ![q].evs = heap[Held(q)].events,
                                    ![q].pc = "eventWrite"]
    /\ UNCHANGED <<orders, heap, ucCalls>>
    /\ UNCHANGED <<orderVars, busVars, redisVars, valueVars, addressVars, menuVars, userVars>>

\* ... and the write; the method returns its event and nil.
UcEventWrite(q) ==
    /\ requests[q].pc = "eventWrite"
    /\ heap' = [heap EXCEPT ![Held(q)].events =
          Append(requests[q].evs, requests[q].plan[1].events[1])]
    /\ requests' = [requests EXCEPT ![q].evs = <<>>, ![q].plan = <<>>,
                                    ![q].pc = "save"]
    /\ UNCHANGED <<orders, ucCalls>>
    /\ UNCHANGED <<orderVars, busVars, redisVars, valueVars, addressVars, menuVars, userVars>>

\* u.repo.Save(ctx, order), which returns nil, and the operation returns nil.
UcSave(q) ==
    /\ requests[q].pc = "save"
    /\ orders' = InMemoryOrderRepository_Save(Held(q), heap)
    /\ requests' = [requests EXCEPT ![q].saves = @ + 1,
                                    ![q].saved = <<NoErr>>,
                                    ![q].pc = "done"]
    /\ UNCHANGED <<heap, ucCalls>>
    /\ UNCHANGED <<orderVars, busVars, redisVars, valueVars, addressVars, menuVars, userVars>>

NextUsecase ==
    \/ \E q \in UcRequests : UcPlaceOrder(q)
    \/ \E q \in UcRequests : UcCall(q)
    \/ \E q \in UcRequests : UcLoad(q)
    \/ \E q \in UcRequests : UcMethodCheck(q)
    \/ \E q \in UcRequests : UcSetStatus(q)
    \/ \E q \in UcRequests : UcSetWindow(q)
    \/ \E q \in UcRequests : UcRecordRead(q)
    \/ \E q \in UcRequests : UcRecordWrite(q)
    \/ \E q \in UcRequests : UcTouch(q)
    \/ \E q \in UcRequests : UcEventRead(q)
    \/ \E q \in UcRequests : UcEventWrite(q)
    \/ \E q \in UcRequests : UcSave(q)

SpecUsecase == Init /\ [][NextUsecase]_vars

\* ------------------------------------------------ MerchantOrderUsecase
\* The merchant-facing use case routes every call to the order use case.
MaxMerchantCalls == 5
\* The goroutine that drives the merchant's calls.
MerchantRequests == {"request-1"}
MerchantIDInputs == {"merchant-1", "merchant-2"}
CustomTimeInputs == {0, 30, 481}
RejectReasonInputs == {"", "out of stock"}
\* The target statuses; PENDING takes the default branch of the switch.
NewStatusInputs ==
    {OrderStatusPreparing, OrderStatusReady, OrderStatusOutForDelivery,
     OrderStatusCompleted, OrderStatusCancelled, OrderStatusPending}

ErrEstimateTooSmall == "estimated minutes must be at least 1"
ErrEstimateTooLarge == "estimated minutes cannot exceed 480 (8 hours)"
ErrReasonRequired == "rejection reason is required"
ErrInvalidStatusTransition == "invalid status transition"

\* The switch of UpdateOrderStatus: the operation of the order use case a
\* target status is routed to, "" for the default branch.
UpdateOrderStatus_Route(newStatus) ==
    CASE newStatus = OrderStatusPreparing -> "StartPreparing"
      [] newStatus = OrderStatusReady -> "MarkReady"
      [] newStatus = OrderStatusOutForDelivery -> "MarkOutForDelivery"
      [] newStatus = OrderStatusCompleted -> "CompleteOrder"
      [] newStatus = OrderStatusCancelled -> "CancelOrder"
      [] OTHER -> ""

\* The call returns an error of its own, without reaching the order use case.
MerchantRefuse(q, name, m, err) ==
    requests' = [requests EXCEPT ![q] =
        [IdleRequest EXCEPT !.pc = "done", !.op = name, !.actor = m,
                            !.err = err]]

\* The call goes on into the order use case's operation op.
MerchantRoute(q, op, m, reason, minutes) ==
    requests' = [requests EXCEPT ![q] =
        [IdleRequest EXCEPT !.pc = "load", !.op = op, !.actor = m,
                            !.reason = reason, !.minutes = minutes]]

\* AcceptOrderWithCustomTime(ctx, merchantID, orderID, estimatedMinutes)
MerchantAcceptOrderWithCustomTime(q) ==
    /\ requests[q].pc \in {"idle", "done"}
    /\ ucCalls < MaxMerchantCalls
    /\ \E m \in MerchantIDInputs, estimatedMinutes \in CustomTimeInputs :
        IF estimatedMinutes < 1
        THEN MerchantRefuse(q, "AcceptOrderWithCustomTime", m, ErrEstimateTooSmall)
        ELSE IF estimatedMinutes > 480
        THEN MerchantRefuse(q, "AcceptOrderWithCustomTime", m, ErrEstimateTooLarge)
        ELSE MerchantRoute(q, "AcceptOrder", m, "", estimatedMinutes)
    /\ ucCalls' = ucCalls + 1
    /\ UNCHANGED <<orders, heap>>
    /\ UNCHANGED <<orderVars, busVars, redisVars, valueVars, addressVars, menuVars, userVars>>

\* RejectOrder(ctx, merchantID, orderID, reason)
MerchantRejectOrder(q) ==
    /\ requests[q].pc \in {"idle", "done"}
    /\ ucCalls < MaxMerchantCalls
    /\ \E m \in MerchantIDInputs, reason \in RejectReasonInputs :
        IF reason = ""
        THEN MerchantRefuse(q, "RejectOrder", m, ErrReasonRequired)
        ELSE MerchantRoute(q, "RejectOrder", m, reason, 0)
    /\ ucCalls' = ucCalls + 1
    /\ UNCHANGED <<orders, heap>>
    /\ UNCHANGED <<orderVars, busVars, redisVars, valueVars, addressVars, menuVars, userVars>>

\* UpdateOrderStatus(ctx, merchantID, orderID, newStatus)
MerchantUpdateOrderStatus(q) ==
    /\ requests[q].pc \in {"idle", "done"}
    /\ ucCalls < MaxMerchantCalls
    /\ \E m \in MerchantIDInputs, newStatus \in NewStatusInputs :
        LET op == UpdateOrderStatus_Route(newStatus)
        IN IF op = ""
           THEN MerchantRefuse(q, "UpdateOrderStatus", m, ErrInvalidStatusTransition)
           ELSE MerchantRoute(q, op, m,
                              IF op = "CancelOrder" THEN "Cancelled by merchant"
                              ELSE "", 0)
    /\ ucCalls' = ucCalls + 1
    /\ UNCHANGED <<orders, heap>>
    /\ UNCHANGED <<orderVars, busVars, redisVars, valueVars, addressVars, menuVars, userVars>>

\* r.FindByMerchantID(ctx, merchantID): the stored orders of the merchant,
\* in one of the orders the map may be ranged over.
RECURSIVE SeqOfSet(_)
SeqOfSet(S) ==
    IF S = {} THEN <<>>
    ELSE LET x == CHOOSE y \in S : TRUE IN <<x>> \o SeqOfSet(S \ {x})

InMemoryOrderRepository_FindByMerchantID(merchantID) ==
    SeqOfSet({heap[orders[id]] : id \in
                 {i \in DOMAIN orders : heap[orders[i]].merchantID = merchantID}})

\* &MerchantOrderStats{}; the average is kept as the two numbers it is the
\* quotient of.
ZeroStats ==
    [TotalOrders |-> 0, PendingOrders |-> 0, AcceptedOrders |-> 0,
     PreparingOrders |-> 0, CompletedOrders |-> 0, RejectedOrders |-> 0,
     CancelledOrders |-> 0,
     TotalRevenue |-> Int64(0), PendingRevenue |-> Int64(0),
     CompletedRevenue |-> Int64(0),
     totalPreparationMinutes |-> 0, completedOrdersWithTime |-> 0]

\* The body of the loop of GetMerchantStats for one order: the switch on
\* the status, then the addition to the total revenue.
StatsOfOrder(st, ord) ==
    LET amount == ord.totalAmount.amount
        s1 == [st EXCEPT !.TotalOrders = @ + 1]
        s2 == CASE ord.status = OrderStatusPending ->
                     [s1 EXCEPT !.PendingOrders = @ + 1,
                                !.PendingRevenue = AddLimbs(@, amount, 0)]
                [] ord.status = OrderStatusAccepted ->
                     [s1 EXCEPT !.AcceptedOrders = @ + 1]
                [] ord.status = OrderStatusPreparing ->
                     [s1 EXCEPT !.PreparingOrders = @ + 1]
                [] ord.status = OrderStatusCompleted ->
                     LET s == [s1 EXCEPT !.CompletedOrders = @ + 1,
                                         !.CompletedRevenue = AddLimbs(@, amount, 0)]
                     IN IF ord.estimatedWindow # <<>>
                        THEN [s EXCEPT !.totalPreparationMinutes =
                                  @ + TimeWindow_DurationMinutes(ord.estimatedWindow[1]),
                                       !.completedOrdersWithTime = @ + 1]
                        ELSE s
                [] ord.status = OrderStatusRejected ->
                     [s1 EXCEPT !.RejectedOrders = @ + 1]
                [] ord.status = OrderStatusCancelled ->
                     [s1 EXCEPT !.CancelledOrders = @ + 1]
                [] OTHER -> s1
    IN [s2 EXCEPT !.TotalRevenue = AddLimbs(@, amount, 0)]

\* The loop of GetMerchantStats over the orders found.
RECURSIVE StatsOver(_, _)
StatsOver(st, ords) ==
    IF ords = <<>> THEN st
    ELSE StatsOver(StatsOfOrder(st, Head(ords)), Tail(ords))

\* GetMerchantStats(ctx, merchantID)
MerchantGetMerchantStats(q) ==
    /\ requests[q].pc \in {"idle", "done"}
    /\ ucCalls < MaxMerchantCalls
    /\ \E m \in MerchantIDInputs :
        requests' = [requests EXCEPT ![q] =
            [IdleRequest EXCEPT !.pc = "done", !.op = "GetMerchantStats",
                                !.actor = m,
                                !.stats = <<StatsOver(ZeroStats,
                                    InMemoryOrderRepository_FindByMerchantID(m))>>]]
    /\ ucCalls' = ucCalls + 1
    /\ UNCHANGED <<orders, heap>>
    /\ UNCHANGED <<orderVars, busVars, redisVars, valueVars, addressVars, menuVars, userVars>>

NextMerchant ==
    \/ \E q \in MerchantRequests : UcPlaceOrder(q)
    \/ \E q \in MerchantRequests : MerchantAcceptOrderWithCustomTime(q)
    \/ \E q \in MerchantRequests : MerchantRejectOrder(q)
    \/ \E q \in MerchantRequests : MerchantUpdateOrderStatus(q)
    \/ \E q \in MerchantRequests : MerchantGetMerchantStats(q)
    \/ \E q \in MerchantRequests : UcLoad(q)
    \/ \E q \in MerchantRequests : UcMethodCheck(q)
    \/ \E q \in MerchantRequests : UcSetStatus(q)
    \/ \E q \in MerchantRequests : UcSetWindow(q)
    \/ \E q \in MerchantRequests : UcRecordRead(q)
    \/ \E q \in MerchantRequests : UcRecordWrite(q)
    \/ \E q \in MerchantRequests : UcTouch(q)
    \/ \E q \in MerchantRequests : UcEventRead(q)
    \/ \E q \in MerchantRequests : UcEventWrite(q)
    \/ \E q \in MerchantRequests : UcSave(q)

SpecMerchant == Init /\ [][NextMerchant]_vars

\* ------------------------------------- a repository whose Save can fail
\* The use case holds an OrderRepository; behind that interface Save may
\* return an error (a database that fails), and the operation returns it.
ErrSaveFailed == "save failed"

\* if err := u.repo.Save(ctx, order); err != nil { return err }
UcSaveError(q) ==
    /\ requests[q].pc = "save"
    /\ requests' = [requests EXCEPT ![q].saves = @ + 1,
                                    ![q].saved = <<ErrSaveFailed>>,
                                    ![q].err = ErrSaveFailed,
                                    ![q].pc = "done"]
    /\ UNCHANGED <<orders, heap, ucCalls>>
    /\ UNCHANGED <<orderVars, busVars, redisVars, valueVars, addressVars, menuVars, userVars>>

NextOrchestration ==
    \/ NextUsecase
    \/ \E q \in UcRequests : UcSaveError(q)

SpecOrchestration == Init /\ [][NextOrchestration]_vars

\* ---------------------------------------------------------- value objects
\* Estimates handed to NewTimeWindow: the everyday ones, a negative one and
\* one of some 380 years.
EstimateInputs == (0..MaxEstimate) \cup {-10, 200000000}

CallNewTimeWindow ==
    /\ \E from \in 0..MaxTime, m \in EstimateInputs :
        LET tw == NewTimeWindow(from, m)
        IN valueRet' = [fn |-> "NewTimeWindow", from |-> from, estimatedMinutes |-> m,
                        window |-> tw,
                        durationMinutes |-> TimeWindow_DurationMinutes(tw[1])]
    /\ UNCHANGED <<orderVars, busVars, redisVars, usecaseVars, addressVars, menuVars, userVars>>

\* Amounts handed to Add and Multiply: everyday prices, a debt, and amounts
\* near the top of int64.
AmountInputs ==
    {Int64(0), Int64(5000), Int64(10000), Int64(25000), Int64(-5000), TwoTo62, MaxInt64}
QuantityInputs == {-1, 0, 1, 3, 4}
\* Amounts handed to String, around both thresholds and on rounding ties.
StringAmounts ==
    {-1, 0, 500, 50000, 99999, 100000, 100001, 100049, 100050, 106250, 550000,
     9999949, 9999950, 9999999, 10000000, 10000001, 12345678, 100000000,
     2100000000}

\* Add has a value receiver and a value argument: it works on copies and
\* returns a new Money, so m and other are what the caller still holds.
CallMoneyAdd ==
    /\ \E a \in AmountInputs, b \in AmountInputs :
        valueRet' = [fn |-> "Add", m |-> NewMoney(a), other |-> NewMoney(b),
                     result |-> Money_Add(NewMoney(a), NewMoney(b))]
    /\ UNCHANGED <<orderVars, busVars, redisVars, usecaseVars, addressVars, menuVars, userVars>>

CallMoneyMultiply ==
    /\ \E a \in AmountInputs, q \in QuantityInputs :
        valueRet' = [fn |-> "Multiply", m |-> NewMoney(a), quantity |-> q,
                     result |-> Money_Multiply(NewMoney(a), q)]
    /\ UNCHANGED <<orderVars, busVars, redisVars, usecaseVars, addressVars, menuVars, userVars>>

CallMoneyString ==
    /\ \E n \in StringAmounts, tie \in {"down", "up"} :
        valueRet' = [fn |-> "String", amount |-> n,
                     text |-> Money_String(NewMoney(Int64(n)), tie)]
    /\ UNCHANGED <<orderVars, busVars, redisVars, usecaseVars, addressVars, menuVars, userVars>>

NextValues ==
    \/ CallNewTimeWindow
    \/ CallMoneyAdd
    \/ CallMoneyMultiply
    \/ CallMoneyString

SpecValues == Init /\ [][NextValues]_vars

\* ---------------------------------------------------------------- Address
Characters == {Space, "x"}
\* The strings of at most MaxStrLen characters.
StreetInputs == UNION {[1..n -> Characters] : n \in 0..MaxStrLen}
\* An empty string, white space, and a word.
FieldInputs == {<<>>, <<Space>>, <<"x">>}
UnitInputs == {<<>>, <<"x">>, <<Space, "x">>}

\* The model follows the first Address that NewAddress allocates.
CallNewAddress ==
    /\ address = <<>>
    /\ \E street \in StreetInputs, city \in FieldInputs, state \in FieldInputs,
          postalCode \in FieldInputs, country \in FieldInputs :
        LET r == NewAddress(street, city, state, postalCode, country)
        IN /\ address' = r.address
           /\ addressRet' = [fn |-> "NewAddress", street |-> street, city |-> city,
                              state |-> state, postalCode |-> postalCode,
                              country |-> country, err |-> r.err]
    /\ UNCHANGED addressHolders
    /\ UNCHANGED <<orderVars, busVars, redisVars, usecaseVars, valueVars, menuVars, userVars>>

\* NewOrder stores the *Address it is given in o.deliveryAddress.
AddressNewOrder ==
    /\ address # <<>>
    /\ "Order" \notin addressHolders
    /\ addressHolders' = addressHolders \cup {"Order"}
    /\ addressRet' = [fn |-> "NewOrder", err |-> NoErr]
    /\ UNCHANGED address
    /\ UNCHANGED <<orderVars, busVars, redisVars, usecaseVars, valueVars, menuVars, userVars>>

\* MarkOutForDelivery copies o.deliveryAddress, the pointer, into the event.
AddressMarkOutForDelivery ==
    /\ "Order" \in addressHolders
    /\ "OrderOutForDeliveryEvent" \notin addressHolders
    /\ addressHolders' = addressHolders \cup {"OrderOutForDeliveryEvent"}
    /\ addressRet' = [fn |-> "MarkOutForDelivery", err |-> NoErr]
    /\ UNCHANGED address
    /\ UNCHANGED <<orderVars, busVars, redisVars, usecaseVars, valueVars, menuVars, userVars>>

\* Whoever holds the pointer (the caller of NewAddress, or a reader of
\* Order.DeliveryAddress() or of the event) can call WithUnit on it.
CallWithUnit ==
    /\ address # <<>>
    /\ \E unit \in UnitInputs :
        /\ address' = <<Address_WithUnit(address[1], unit)>>
        /\ addressRet' = [fn |-> "WithUnit", unit |-> unit, err |-> NoErr]
    /\ UNCHANGED addressHolders
    /\ UNCHANGED <<orderVars, busVars, redisVars, usecaseVars, valueVars, menuVars, userVars>>

NextAddress ==
    \/ CallNewAddress
    \/ AddressNewOrder
    \/ AddressMarkOutForDelivery
    \/ CallWithUnit

SpecAddress == Init /\ [][NextAddress]_vars

\* --------------------------------------------------------------- MenuItem
QuantityArgs == {0, 1, 2, 3}
LevelArgs == {Int64(-2), Int64(-1), Int64(0), Int64(2), Int64(3), MaxInt64}
PriceArgs == {Int64(0), Int64(30000)}
NameArgs == {"", "Cheeseburger"}

MenuFrame == UNCHANGED <<orderVars, busVars, redisVars, usecaseVars, valueVars, addressVars, userVars>>

\* The call is remembered with the stock level read before it.
MenuReserveStock ==
    /\ menuCalls < MaxMenuCalls
    /\ \E q \in QuantityArgs :
        LET r == MenuItem_ReserveStock(menuItem, q)
        IN /\ menuItem' = r.item
           /\ menuRet' = [op |-> "ReserveStock", quantity |-> q, err |-> r.err,
                           before |-> menuItem.stockLevel]
    /\ menuCalls' = menuCalls + 1
    /\ UNCHANGED <<orderItems, menuOrder>>
    /\ MenuFrame

\* The call is remembered with the reservation made just before it, if any.
MenuReleaseStock ==
    /\ menuCalls < MaxMenuCalls
    /\ \E q \in QuantityArgs :
        LET r == MenuItem_ReleaseStock(menuItem, q)
        IN /\ menuItem' = r.item
           /\ menuRet' = [op |-> "ReleaseStock", quantity |-> q, err |-> r.err,
                           reservation |-> IF menuRet.op = "ReserveStock"
                                           THEN <<menuRet>> ELSE <<>>]
    /\ menuCalls' = menuCalls + 1
    /\ UNCHANGED <<orderItems, menuOrder>>
    /\ MenuFrame

MenuSetStockLevel ==
    /\ menuCalls < MaxMenuCalls
    /\ \E level \in LevelArgs :
        LET r == MenuItem_SetStockLevel(menuItem, level)
        IN /\ menuItem' = r.item
           /\ menuRet' = [op |-> "SetStockLevel", level |-> level, err |-> r.err]
    /\ menuCalls' = menuCalls + 1
    /\ UNCHANGED <<orderItems, menuOrder>>
    /\ MenuFrame

MenuMakeAvailable ==
    /\ menuCalls < MaxMenuCalls
    /\ menuItem' = MenuItem_MakeAvailable(menuItem)
    /\ menuRet' = [op |-> "MakeAvailable", err |-> NoErr]
    /\ menuCalls' = menuCalls + 1
    /\ UNCHANGED <<orderItems, menuOrder>>
    /\ MenuFrame

MenuMakeUnavailable ==
    /\ menuCalls < MaxMenuCalls
    /\ menuItem' = MenuItem_MakeUnavailable(menuItem)
    /\ menuRet' = [op |-> "MakeUnavailable", err |-> NoErr]
    /\ menuCalls' = menuCalls + 1
    /\ UNCHANGED <<orderItems, menuOrder>>
    /\ MenuFrame

MenuUpdatePrice ==
    /\ menuCalls < MaxMenuCalls
    /\ \E price \in PriceArgs :
        LET r == MenuItem_UpdatePrice(menuItem, price)
        IN /\ menuItem' = r.item
           /\ menuRet' = [op |-> "UpdatePrice", price |-> price, err |-> r.err]
    /\ menuCalls' = menuCalls + 1
    /\ UNCHANGED <<orderItems, menuOrder>>
    /\ MenuFrame

MenuUpdateDetails ==
    /\ menuCalls < MaxMenuCalls
    /\ \E name \in NameArgs :
        LET r == MenuItem_UpdateDetails(menuItem, name, "")
        IN /\ menuItem' = r.item
           /\ menuRet' = [op |-> "UpdateDetails", name |-> name, err |-> r.err]
    /\ menuCalls' = menuCalls + 1
    /\ UNCHANGED <<orderItems, menuOrder>>
    /\ MenuFrame

\* The caller keeps the OrderItem that a successful call returns.
MenuCreateOrderItem ==
    /\ menuCalls < MaxMenuCalls
    /\ \E q \in QuantityArgs :
        LET r == MenuItem_CreateOrderItem(menuItem, q)
        IN /\ menuItem' = r.item
           /\ orderItems' = orderItems \o r.orderItem
           /\ menuRet' = [op |-> "CreateOrderItem", quantity |-> q,
                           orderItem |-> r.orderItem, err |-> r.err]
    /\ menuCalls' = menuCalls + 1
    /\ UNCHANGED menuOrder
    /\ MenuFrame

\* The order of the items created so far: NewOrder keeps the OrderItem
\* values it is given, price included, and adds up the total.
MenuNewOrder ==
    /\ menuCalls < MaxMenuCalls
    /\ menuOrder = <<>>
    /\ orderItems # <<>>
    /\ LET r == NewOrder("order-1", "customer-1", menuItem.merchantID, orderItems,
                         DeliveryMethodPickup, <<>>, 0)
       IN /\ menuOrder' = r.order
          /\ menuRet' = [op |-> "NewOrder", err |-> r.err]
    /\ menuCalls' = menuCalls + 1
    /\ UNCHANGED <<menuItem, orderItems>>
    /\ MenuFrame

NextMenu ==
    \/ MenuReserveStock
    \/ MenuReleaseStock
    \/ MenuSetStockLevel
    \/ MenuMakeAvailable
    \/ MenuMakeUnavailable
    \/ MenuUpdatePrice
    \/ MenuUpdateDetails
    \/ MenuCreateOrderItem
    \/ MenuNewOrder

SpecMenu == Init /\ [][NextMenu]_vars

\* ----------------------------------------------------- vocabulary of claims
\* The transition table as the specification prints it (section 4.3).
TransitionTable ==
    {<<"PENDING", "ACCEPTED">>, <<"PENDING", "REJECTED">>, <<"PENDING", "CANCELLED">>,
     <<"ACCEPTED", "PREPARING">>, <<"ACCEPTED", "CANCELLED">>,
     <<"PREPARING", "READY">>, <<"PREPARING", "CANCELLED">>,
     <<"READY", "OUT_FOR_DELIVERY">>, <<"READY", "COMPLETED">>, <<"READY", "CANCELLED">>,
     <<"OUT_FOR_DELIVERY", "COMPLETED">>, <<"OUT_FOR_DELIVERY", "CANCELLED">>}

TerminalStatuses == {"COMPLETED", "REJECTED", "CANCELLED"}

TransitionOps ==
    {"Accept", "Reject", "StartPreparing", "MarkReady", "DispatchForDelivery",
     "Complete", "Cancel"}

\* The status a transition method aims at.
TargetOf(op) ==
    CASE op = "Accept" -> "ACCEPTED"
      [] op = "Reject" -> "REJECTED"
      [] op = "StartPreparing" -> "PREPARING"
      [] op = "MarkReady" -> "READY"
      [] op = "DispatchForDelivery" -> "OUT_FOR_DELIVERY"
      [] op = "Complete" -> "COMPLETED"
      [] op = "Cancel" -> "CANCELLED"

\* The event that corresponds to a transition method.
EventOf(op) ==
    CASE op = "Accept" -> "order.accepted"
      [] op = "Reject" -> "order.rejected"
      [] op = "StartPreparing" -> "order.preparing"
      [] op = "MarkReady" -> "order.ready"
      [] op = "DispatchForDelivery" -> "order.out_for_delivery"
      [] op = "Complete" -> "order.completed"
      [] op = "Cancel" -> "order.cancelled"

\* This step is a call of transition method op on an existing order.
Calls(op) == order # <<>> /\ ret'.op = op

Succeeded == ret.err = NoErr

\* ------------------------------------------------------------------- C1
\* C1: for every (from, to) pair of the transition table, the matching
\* method called on an order in status from (DispatchForDelivery: on a
\* delivery order) succeeds, sets the status to to, lengthens the status
\* history by exactly one entry and returns exactly one event, of the type
\* of that transition.
C1_Step ==
    \A op \in TransitionOps :
        (/\ Calls(op)
         /\ <<order[1].status, TargetOf(op)>> \in TransitionTable
         /\ (op = "DispatchForDelivery" =>
                order[1].deliveryMethod = DeliveryMethodDelivery))
        => /\ ret'.err = NoErr
           /\ order'[1].status = TargetOf(op)
           /\ Len(order'[1].statusHistory) = Len(order[1].statusHistory) + 1
           /\ SubSeq(order'[1].statusHistory, 1, Len(order[1].statusHistory))
                 = order[1].statusHistory
           /\ order'[1].statusHistory[Len(order'[1].statusHistory)].To = TargetOf(op)
           /\ Len(ret'.events) = 1
           /\ ret'.events[1].name = EventOf(op)

C1_TableTransitionsSucceed == [][C1_Step]_vars

\* The complete delivery workflow: five transitions, the last one Complete.
C1_Witness ==
    /\ order # <<>>
    /\ ret.op = "Complete" /\ Succeeded
    /\ order[1].status = "COMPLETED"
    /\ order[1].deliveryMethod = DeliveryMethodDelivery
    /\ Len(order[1].statusHistory) = 5

\* ------------------------------------------------------------------- C2
\* C2: every StatusChange of the history has From = the status before the
\* call and To = the new status: From differs from To, the first entry's
\* From is PENDING, each later entry's From is the previous entry's To, and
\* the last entry's To is the current status.
C2_HistoryFromTo ==
    order # <<>> =>
        LET h == order[1].statusHistory
        IN /\ \A i \in DOMAIN h :
                /\ h[i].From # h[i].To
                /\ h[i].From = (IF i = 1 THEN "PENDING" ELSE h[i - 1].To)
           /\ (h # <<>> => h[Len(h)].To = order[1].status)

\* The history after Accept on a fresh order: one entry, ACCEPTED to ACCEPTED.
C2_Witness ==
    /\ order # <<>>
    /\ ret.op = "Accept" /\ Succeeded
    /\ Len(order[1].statusHistory) = 1

\* ------------------------------------------------------------------- C3
\* The error a refused call returns: ErrInvalidStateTransition, except that
\* DispatchForDelivery on an order that is not a delivery order returns its
\* own delivery-method error.
RefusalError(op, o) ==
    IF op = "DispatchForDelivery" /\ o.deliveryMethod # DeliveryMethodDelivery
    THEN ErrOnlyDeliveryOrders
    ELSE ErrInvalidStateTransition

\* C3 (as amended): for every (current, target) pair that is not in the
\* transition table the matching method fails and leaves the aggregate
\* (status, history, updatedAt, window, pending events, everything) as it
\* was; the error is ErrInvalidStateTransition, except for
\* DispatchForDelivery on a pickup order, which fails with the
\* delivery-method error.
C3_Step ==
    \A op \in TransitionOps :
        (Calls(op) /\ <<order[1].status, TargetOf(op)>> \notin TransitionTable)
        => /\ ret'.err = RefusalError(op, order[1])
           /\ ret'.events = <<>>
           /\ order' = order
           /\ now' = now

C3_InvalidTransitionsRefused == [][C3_Step]_vars

\* C3 (as stated): every such call fails with ErrInvalidStateTransition
\* and leaves the aggregate unchanged.
C3_OriginalStep ==
    \A op \in TransitionOps :
        (Calls(op) /\ <<order[1].status, TargetOf(op)>> \notin TransitionTable)
        => /\ ret'.err = ErrInvalidStateTransition
           /\ order' = order

C3_Original == [][C3_OriginalStep]_vars

\* Reject refused on an ACCEPTED order.
C3_Witness ==
    /\ order # <<>>
    /\ order[1].status = "ACCEPTED"
    /\ ret.op = "Reject"
    /\ ret.err = ErrInvalidStateTransition

\* ------------------------------------------------------------------- C4
\* C4: COMPLETED, REJECTED and CANCELLED are terminal: from such a status
\* every transition method fails and no step changes the status.
C4_Step ==
    (order # <<>> /\ order[1].status \in TerminalStatuses)
    => /\ order' # <<>>
       /\ order'[1].status = order[1].status
       /\ order'[1].statusHistory = order[1].statusHistory
       /\ (ret'.op \in TransitionOps => ret'.err # NoErr)

C4_TerminalStatuses == [][C4_Step]_vars

\* Cancel refused on a COMPLETED order.
C4_Witness ==
    /\ order # <<>>
    /\ order[1].status = "COMPLETED"
    /\ ret.op = "Cancel"
    /\ ret.err # NoErr

\* ------------------------------------------------------------------- C5
\* C5: DispatchForDelivery on a pickup order fails in every status, READY
\* included, and leaves the aggregate unchanged; a Complete that follows
\* the refused dispatch of a READY order succeeds.
C5_Step ==
    /\ (Calls("DispatchForDelivery") /\ order[1].deliveryMethod = DeliveryMethodPickup)
       => /\ ret'.err # NoErr
          /\ ret'.events = <<>>
          /\ order' = order
    /\ (/\ Calls("Complete")
        /\ order[1].deliveryMethod = DeliveryMethodPickup
        /\ order[1].status = "READY"
        /\ ret.op = "DispatchForDelivery")
       => /\ ret'.err = NoErr
          /\ order'[1].status = "COMPLETED"

C5_PickupNeverDispatched == [][C5_Step]_vars

\* A READY pickup order whose dispatch has just been refused.
C5_Witness ==
    /\ order # <<>>
    /\ order[1].deliveryMethod = DeliveryMethodPickup
    /\ order[1].status = "READY"
    /\ ret.op = "DispatchForDelivery"
    /\ ret.err # NoErr

\* ------------------------------------------------------------------- C6
RECURSIVE ExactTotal(_)
\* The sum over the items of price-per-item x quantity as an integer (over
\* WideCount limbs, where it cannot wrap).
ExactTotal(items) ==
    IF items = <<>> THEN ZeroLimbs(WideCount)
    ELSE AddLimbs(TimesLimbs(Widen(Head(items).PricePerItem.amount, WideCount),
                             Head(items).Quantity),
                  ExactTotal(Tail(items)), 0)

\* C6: the order total always equals the sum over all items of
\* price-per-item x quantity, from NewOrder on and after any sequence of
\* transition methods and ClearEvents.
C6_TotalIsSumOfItems ==
    order # <<>> =>
        Widen(order[1].totalAmount.amount, WideCount) = ExactTotal(order[1].items)

\* ------------------------------------------------------------------- C7
\* The errors of the construction rules the arguments of a NewOrder call break.
BrokenRules(a) ==
    {e \in {ErrMissingCustomer, ErrMissingMerchant, ErrEmptyOrder,
            ErrInvalidDeliveryMethod, ErrDeliveryAddressRequired, ErrInvalidQuantity} :
        \/ e = ErrMissingCustomer /\ a.customerID = NilUUID
        \/ e = ErrMissingMerchant /\ a.merchantID = NilUUID
        \/ e = ErrEmptyOrder /\ a.items = <<>>
        \/ e = ErrInvalidDeliveryMethod
             /\ a.deliveryMethod \notin {DeliveryMethodPickup, DeliveryMethodDelivery}
        \/ e = ErrDeliveryAddressRequired
             /\ a.deliveryMethod = DeliveryMethodDelivery /\ a.deliveryAddress = <<>>
        \/ e = ErrInvalidQuantity /\ \E i \in DOMAIN a.items : a.items[i].Quantity <= 0}

\* C7: NewOrder returns nil and an error whenever its arguments break a
\* construction rule, the error being that of a broken rule, and succeeds
\* otherwise; so every order that exists has a customer, a merchant, at
\* least one item and only positive quantities.
C7_Step ==
    /\ ret'.op = "NewOrder" =>
          /\ (BrokenRules(ret'.args) # {} =>
                 ret'.err \in BrokenRules(ret'.args) /\ order' = <<>>)
          /\ (BrokenRules(ret'.args) = {} => ret'.err = NoErr /\ order' # <<>>)
    /\ order' # <<>> =>
          /\ order'[1].customerID # NilUUID
          /\ order'[1].merchantID # NilUUID
          /\ Len(order'[1].items) >= 1
          /\ \A i \in DOMAIN order'[1].items : order'[1].items[i].Quantity > 0

C7_NewOrderFailsFast == [][C7_Step]_vars

\* NewOrder refused for an item of quantity 0 among otherwise valid arguments.
C7_Witness ==
    /\ ret.op = "NewOrder"
    /\ ret.err = ErrInvalidQuantity
    /\ BrokenRules(ret.args) = {ErrInvalidQuantity}
    /\ order = <<>>

\* ------------------------------------------------------------------- C8
\* C8: NewOrder for delivery with a nil address fails; NewOrder for pickup
\* with a non-nil address (and otherwise valid arguments) succeeds, and the
\* order holds that address.
C8_Step ==
    ret'.op = "NewOrder" =>
        LET a == ret'.args
        IN /\ (a.deliveryMethod = DeliveryMethodDelivery /\ a.deliveryAddress = <<>>)
              => ret'.err # NoErr /\ order' = <<>>
           /\ (/\ a.deliveryMethod = DeliveryMethodPickup
               /\ a.deliveryAddress # <<>>
               /\ BrokenRules(a) = {})
              => /\ ret'.err = NoErr
                 /\ order' # <<>>
                 /\ order'[1].deliveryAddress = a.deliveryAddress

C8_AddressAtConstruction == [][C8_Step]_vars

\* A pickup order just built with an address.
C8_Witness ==
    /\ ret.op = "NewOrder" /\ Succeeded
    /\ order # <<>>
    /\ ret.args.deliveryMethod = DeliveryMethodPickup
    /\ ret.args.deliveryAddress # <<>>

\* ------------------------------------------------------------------- C9
\* C9 (as stated): an order exists with a delivery address if and only if
\* its delivery method is delivery.
C9_Original ==
    order # <<>> =>
        (order[1].deliveryAddress # <<>>
            <=> order[1].deliveryMethod = DeliveryMethodDelivery)

\* C9 (as amended): the factory validates address presence in one
\* direction only: every delivery order holds an address, NewOrder for
\* delivery without one being refused with ErrDeliveryAddressRequired and
\* no aggregate created, while an address supplied for a pickup order is
\* accepted and kept.
C9_DeliveryHasAddress ==
    /\ order # <<>> =>
          (order[1].deliveryMethod = DeliveryMethodDelivery
              => order[1].deliveryAddress # <<>>)
    /\ (ret.op = "NewOrder" /\ ret.err = ErrDeliveryAddressRequired) =>
          /\ order = <<>>
          /\ ret.args.deliveryMethod = DeliveryMethodDelivery
          /\ ret.args.deliveryAddress = <<>>
    /\ (ret.op = "NewOrder" /\ Succeeded) =>
          order[1].deliveryAddress = ret.args.deliveryAddress

\* A delivery order, with its address, on its way to the customer.
C9_Witness ==
    /\ order # <<>>
    /\ order[1].deliveryMethod = DeliveryMethodDelivery
    /\ order[1].deliveryAddress # <<>>
    /\ order[1].status = "OUT_FOR_DELIVERY"

\* ------------------------------------------------------------------ C10
\* C10: an order returned by NewOrder has status PENDING, an empty status
\* history, no estimated window, createdAt = updatedAt and exactly one
\* pending event, an OrderPlaced event carrying the order's id, customer
\* id, merchant id, total and delivery method.
C10_FreshOrder ==
    (ret.op = "NewOrder" /\ Succeeded) =>
        /\ order # <<>>
        /\ order[1].status = "PENDING"
        /\ order[1].statusHistory = <<>>
        /\ order[1].estimatedWindow = <<>>
        /\ order[1].createdAt = order[1].updatedAt
        /\ Len(order[1].events) = 1
        /\ order[1].events[1].name = "order.placed"
        /\ order[1].events[1].OrderID = order[1].id
        /\ order[1].events[1].CustomerID = order[1].customerID
        /\ order[1].events[1].MerchantID = order[1].merchantID
        /\ order[1].events[1].TotalAmount = order[1].totalAmount
        /\ order[1].events[1].DeliveryMethod = order[1].deliveryMethod
        /\ order[1].customerID = ret.args.customerID
        /\ order[1].merchantID = ret.args.merchantID
        /\ order[1].deliveryMethod = ret.args.deliveryMethod
        /\ order[1].items = ret.args.items

\* The order of the end-to-end scenario's shape, just placed.
C10_Witness ==
    /\ ret.op = "NewOrder" /\ Succeeded
    /\ order # <<>>
    /\ Len(order[1].items) = 2
    /\ order[1].totalAmount = NewMoney(Int64(100000))

\* ------------------------------------------------------------------- C11
\* The name of the event a transition into a status raises.
EventOfStatus(status) ==
    CASE status = "ACCEPTED" -> "order.accepted"
      [] status = "REJECTED" -> "order.rejected"
      [] status = "PREPARING" -> "order.preparing"
      [] status = "READY" -> "order.ready"
      [] status = "OUT_FOR_DELIVERY" -> "order.out_for_delivery"
      [] status = "COMPLETED" -> "order.completed"
      [] status = "CANCELLED" -> "order.cancelled"

\* While the list still starts with the creation event (nothing has cleared
\* it), it holds the creation event and then one event per successful
\* transition, in the order the transitions happened.
C11_Accumulated ==
    (order # <<>> /\ order[1].events # <<>>
        /\ order[1].events[1].name = "order.placed")
    => /\ Len(order[1].events) = 1 + Len(order[1].statusHistory)
       /\ \A i \in 1..Len(order[1].statusHistory) :
            order[1].events[i + 1].name = EventOfStatus(order[1].statusHistory[i].To)

C11_Step ==
    /\ \A op \in TransitionOps :
        Calls(op) =>
            IF ret'.err = NoErr
            THEN /\ Len(ret'.events) = 1
                 /\ order'[1].events = Append(order[1].events, ret'.events[1])
            ELSE order'[1].events = order[1].events
    /\ Calls("ClearEvents") =>
            /\ order'[1].events = <<>>
            /\ order'[1] = [order[1] EXCEPT !.events = <<>>]
            /\ (order[1].events = <<>> => order'[1] = order[1])

\* C11: the pending-event list gains exactly one event, the returned one, at
\* its end per successful operation and nothing on a failing transition, so
\* that an uncleared list holds 1 + k events in order after k successes;
\* ClearEvents empties the list, changes nothing else on the aggregate, and
\* changes nothing at all when the list is already empty.
C11_PendingEvents == []C11_Accumulated /\ [][C11_Step]_vars

\* An uncleared list after creation and five successful transitions.
C11_Witness ==
    /\ order # <<>>
    /\ Len(order[1].events) = 6
    /\ order[1].events[1].name = "order.placed"
    /\ order[1].events[6].name = "order.completed"
    /\ ret.op = "Complete" /\ Succeeded

\* ------------------------------------------------------------------- C19
C19_Step ==
    order # <<>> =>
        /\ Len(order'[1].statusHistory) >= Len(order[1].statusHistory)
        /\ SubSeq(order'[1].statusHistory, 1, Len(order[1].statusHistory))
              = order[1].statusHistory
        /\ Len(order'[1].statusHistory) =
              Len(order[1].statusHistory)
                + (IF ret'.op \in TransitionOps /\ ret'.err = NoErr THEN 1 ELSE 0)

\* C19: the status history is append-only: every call keeps the entries
\* already there, a successful transition adds exactly one entry at the end
\* and a failing call (or ClearEvents) adds none, so that the length, which
\* starts at 0 on creation, counts the successful transitions.
C19_HistoryAppendOnly ==
    /\ [](order # <<>> /\ ret.op = "NewOrder" => order[1].statusHistory = <<>>)
    /\ [][C19_Step]_vars

\* The full delivery workflow: five successful transitions, five entries.
C19_Witness ==
    /\ order # <<>>
    /\ order[1].status = "COMPLETED"
    /\ order[1].deliveryMethod = DeliveryMethodDelivery
    /\ Len(order[1].statusHistory) = 5
    /\ order[1].statusHistory[4].To = "OUT_FOR_DELIVERY"

\* ------------------------------------------------------------------- C20
\* The order has been accepted at some point of its life.
WasAccepted(o) == \E i \in 1..Len(o.statusHistory) : o.statusHistory[i].To = "ACCEPTED"

C20_Step ==
    order # <<>> =>
        /\ (Calls("Accept") /\ ret'.err = NoErr) => order'[1].estimatedWindow # <<>>
        /\ order[1].estimatedWindow # <<>> =>
              order'[1].estimatedWindow = order[1].estimatedWindow
        /\ ~(Calls("Accept") /\ ret'.err = NoErr) =>
              order'[1].estimatedWindow = order[1].estimatedWindow

\* C20: the estimated window is absent while the order is PENDING and in
\* every order that was never accepted (so in every order rejected or
\* cancelled straight from PENDING); a successful Accept sets it; once
\* present it never changes or disappears; no other call, a failed Accept
\* included, sets or alters it.
C20_WindowSetOnlyByAccept ==
    /\ [](order # <<>> =>
            /\ (order[1].status = "PENDING" => order[1].estimatedWindow = <<>>)
            /\ (order[1].estimatedWindow # <<>> <=> WasAccepted(order[1])))
    /\ [][C20_Step]_vars

\* An accepted order carried through to the end with its window, after a
\* failed second Accept.
C20_Witness ==
    /\ order # <<>>
    /\ order[1].estimatedWindow # <<>>
    /\ Len(order[1].statusHistory) >= 2
    /\ ret.op = "Accept" /\ ret.err = ErrInvalidStateTransition

\* ------------------------------------------------------------------- C12
\* Publish call k is over: it has returned and none of its handlers is
\* still waiting to be started.
PublishOver(k) ==
    /\ publishes[k].returned
    /\ \A i \in DOMAIN publishes[k].handlers : publishes[k].state[i] # "spawned"

\* C12: once a Publish call is over, each of the N handlers that were
\* registered on the event's topic has been invoked exactly once with the
\* event, also when one of them returned an error; a Publish to a topic
\* without subscribers returns nil and invokes nothing.
C12_EachHandlerOnce ==
    \A k \in DOMAIN publishes :
        PublishOver(k) =>
            /\ \A i \in DOMAIN publishes[k].handlers : publishes[k].invoked[i] = 1
            /\ (publishes[k].handlers = <<>> => publishes[k].err = NoErr)

\* ------------------------------------------------------------------- C13
\* C13: a Publish call never waits for a handler: at no point of the call
\* is the caller inside a handler, whose return (which may never come) it
\* would need before it can invoke the next handler and return.
C13_PublishNeverWaits ==
    \A c \in BusCallers : callers[c].pc # "handling"

\* ------------------------------------------------------------------- C14
\* C14: Publish returns nil whatever its handlers return.
C14_PublishReturnsNil ==
    \A k \in DOMAIN publishes :
        publishes[k].returned => publishes[k].err = NoErr

\* ------------------------------------------------------------------- C15
C15_Step ==
    /\ redisRet'.op = "Subscribe" =>
          /\ redisRet'.err # NoErr
          /\ redisClient' = redisClient
    /\ redisRet'.invoked = {}

\* C15: on the Redis bridge every Subscribe call, for every topic and
\* handler and in every state, returns an error and changes nothing (the
\* bridge keeps no registry and the client gets no command), and no call,
\* so no later Publish, invokes a handler.
C15_SubscribeAlwaysFails ==
    /\ [](redisRet.op = "Subscribe" => redisRet.err = ErrSubscribeNotImplemented)
    /\ [][C15_Step]_vars

\* A Subscribe on a bridge that has published before.
C15_Witness ==
    /\ redisRet.op = "Subscribe"
    /\ redisRet.err = ErrSubscribeNotImplemented
    /\ Len(redisClient) >= 1

\* ------------------------------------------------------------------- C16
C16_Step ==
    redisRet'.op = "Publish" =>
        LET e == redisRet'.event[1]
        IN IF ~e.encodable
           THEN /\ redisRet'.err # NoErr
                /\ redisClient' = redisClient
           ELSE /\ Len(redisClient') = Len(redisClient) + 1
                /\ SubSeq(redisClient', 1, Len(redisClient)) = redisClient
                /\ redisClient'[Len(redisClient')].channel = e.topic
                /\ redisClient'[Len(redisClient')].payload = Marshal(e).payload
                /\ redisRet'.err = redisClient'[Len(redisClient')].err

\* C16: Publish on the Redis bridge gives the client exactly one PUBLISH
\* command, with the event's topic as channel and the serialized event as
\* payload, when serialization succeeds, and returns what that command
\* returned: nil when the transmission succeeded, the error when it failed;
\* when serialization fails it returns an error and gives the client
\* nothing.
C16_PublishToBroker == [][C16_Step]_vars

\* A transmission failure after a successful publish.
C16_Witness ==
    /\ redisRet.op = "Publish"
    /\ redisRet.err = ErrTransmission
    /\ Len(redisClient) = 2
    /\ redisClient[1].err = NoErr

\* ------------------------------------------------------------------- C17
\* Who may perform an operation on an order: its merchant, and for
\* CancelOrder also its customer.
C17_Allowed(op, o, userID) ==
    IF op = "CancelOrder" THEN userID \in {o.customerID, o.merchantID}
    ELSE userID = o.merchantID

UnauthorizedErrors == {ErrNotOwner, ErrCannotCancel}

\* A transition operation that has loaded its order on behalf of somebody
\* who may not perform it has ended with an unauthorized error, without
\* having called a method of the aggregate or Save; nobody else gets that
\* error.
C17_Refused ==
    \A q \in UcRequests :
        (requests[q].op \in UcTransitionOps /\ requests[q].ptr # <<>>) =>
            IF C17_Allowed(requests[q].op, heap[Held(q)], requests[q].actor)
            THEN requests[q].err \notin UnauthorizedErrors
            ELSE /\ requests[q].pc = "done"
                 /\ requests[q].err \in UnauthorizedErrors
                 /\ requests[q].method = ""
                 /\ requests[q].saves = 0

\* The step that returns the unauthorized error changes no aggregate and
\* nothing in the repository.
C17_Step ==
    \A q \in UcRequests :
        (requests[q].pc = "load" /\ requests'[q].err \in UnauthorizedErrors) =>
            /\ heap' = heap
            /\ orders' = orders

\* C17: in the use-case layer the authorization check comes before every
\* transition: AcceptOrder, RejectOrder, StartPreparing, MarkReady,
\* MarkOutForDelivery or CompleteOrder with a merchant id that is not the
\* order's, or CancelOrder with a user id that is neither the order's
\* customer nor its merchant, returns an unauthorized error, calls no
\* transition method and no Save, and leaves the order as it was.
C17_AuthorizationFirst == []C17_Refused /\ [][C17_Step]_vars

\* Another merchant tried to cancel, and the customer tried to accept, a
\* pending order.
C17_Witness ==
    /\ requests["request-1"].op = "CancelOrder"
    /\ requests["request-1"].actor = "merchant-2"
    /\ requests["request-1"].err = ErrCannotCancel
    /\ requests["request-2"].op = "AcceptOrder"
    /\ requests["request-2"].actor = "customer-1"
    /\ requests["request-2"].err = ErrNotOwner
    /\ heap["order-1"].status = "PENDING"
    /\ Len(heap["order-1"].events) = 1

\* ------------------------------------------------------------------- C18
\* The operations that are valid on a PENDING order.
C18_Ops == {"AcceptOrder", "RejectOrder", "CancelOrder"}

\* Request q has loaded a PENDING order for one of these operations, as
\* somebody who may perform it, and the call is over.
C18_Finished(q) ==
    /\ requests[q].pc = "done"
    /\ requests[q].op \in C18_Ops
    /\ requests[q].loaded = "PENDING"
    /\ requests[q].err \notin UnauthorizedErrors

\* The statement as it was made: two callers that each loaded the same
\* PENDING order for a transition valid from PENDING both succeed.
C18_Original ==
    \A q1, q2 \in UcRequests :
        (q1 # q2 /\ C18_Finished(q1) /\ C18_Finished(q2)
            /\ requests[q1].ptr = requests[q2].ptr)
        => (requests[q1].err = NoErr /\ requests[q2].err = NoErr)

\* Every caller holds the object the repository holds; and when an accept
\* and a reject of the same PENDING order have both succeeded, the stored
\* aggregate carries the acceptance's window whatever its status is.
C18_Shared ==
    /\ \A q \in UcRequests :
        requests[q].ptr # <<>> => orders[heap[Held(q)].id] = Held(q)
    /\ \A q1, q2 \in UcRequests :
        (/\ C18_Finished(q1) /\ C18_Finished(q2)
         /\ requests[q1].op = "AcceptOrder" /\ requests[q2].op = "RejectOrder"
         /\ requests[q1].err = NoErr /\ requests[q2].err = NoErr)
        => /\ heap[Held(q1)].estimatedWindow # <<>>
           /\ heap[Held(q1)].status \in {"ACCEPTED", "REJECTED"}
           /\ Len(heap[Held(q1)].statusHistory) \in {1, 2}

\* The method's check is made against the status the shared aggregate has
\* when the method runs; a refused operation saves nothing; the Save of a
\* transition returns nil and stores what is stored already.
C18_Step ==
    \A q \in UcRequests :
        /\ (requests[q].pc = "method" /\ requests'[q].pc # "method"
                /\ requests[q].op \in C18_Ops) =>
              IF <<heap[Held(q)].status, TargetOf(MethodOf(requests[q].op))>>
                    \in TransitionTable
              THEN requests'[q].pc = "status" /\ requests'[q].err = NoErr
              ELSE /\ requests'[q].pc = "done"
                   /\ requests'[q].err = ErrInvalidStateTransition
                   /\ requests'[q].saves = 0
                   /\ heap' = heap /\ orders' = orders
        /\ (requests[q].pc = "save" /\ requests'[q].pc = "done") =>
              /\ orders' = orders
              /\ requests'[q].err = NoErr

\* C18 (amended): concurrent transitions on one order are not coordinated
\* by any version check and Save never fails, but every caller gets the one
\* aggregate object the repository holds: a transition is checked against
\* the status that object has when the method runs, not the status the
\* caller loaded, so a second accept or reject that starts after the first
\* has set the status fails with ErrInvalidStateTransition and saves
\* nothing; both succeed only when the unsynchronized methods overlap, and
\* then the stored aggregate holds writes of both.
C18_SharedAggregate == []C18_Shared /\ [][C18_Step]_vars

\* Two callers loaded the same PENDING order; the accept succeeded and the
\* reject, whose method ran afterwards, was refused.
C18_Witness ==
    /\ C18_Finished("request-1") /\ C18_Finished("request-2")
    /\ requests["request-1"].op = "AcceptOrder"
    /\ requests["request-1"].err = NoErr
    /\ requests["request-2"].op = "RejectOrder"
    /\ requests["request-2"].err = ErrInvalidStateTransition
    /\ heap["order-1"].status = "ACCEPTED"

\* Both an accept and a reject succeeded on overlapping methods: the
\* aggregate is REJECTED, carries a window and has lost the acceptance's
\* history entry.
C18_RaceOutcome ==
    /\ C18_Finished("request-1") /\ C18_Finished("request-2")
    /\ requests["request-1"].op = "AcceptOrder"
    /\ requests["request-1"].err = NoErr
    /\ requests["request-2"].op = "RejectOrder"
    /\ requests["request-2"].err = NoErr
    /\ heap["order-1"].status = "REJECTED"
    /\ Len(heap["order-1"].statusHistory) = 1

\* ------------------------------------------------------------------- C22
\* The window the statement describes for a call: start and end as exact
\* numbers of nanoseconds after now, and the width in minutes.
C22_Buffer(m) == IF m \div 10 < 5 THEN 5 ELSE m \div 10

\* C22: for every estimate m, NewTimeWindow(now, m) starts at
\* now + (m - buffer) minutes and ends at now + (m + buffer) minutes with
\* buffer = max(5, m / 10), and is 2 * buffer minutes wide.
C22_WindowAroundEstimate ==
    valueRet.fn = "NewTimeWindow" =>
        LET m == valueRet.estimatedMinutes
            b == C22_Buffer(m)
            tw == valueRet.window[1]
        IN /\ tw.StartTime.at = valueRet.from /\ tw.EndTime.at = valueRet.from
           /\ Widen(tw.StartTime.plus, WideCount) = TimesMinute(Lit(m - b, WideCount))
           /\ Widen(tw.EndTime.plus, WideCount) = TimesMinute(Lit(m + b, WideCount))
           /\ valueRet.durationMinutes = 2 * b

\* The same for the estimates up to MaxEstimate minutes.
C22_EverydayEstimates ==
    (valueRet.fn = "NewTimeWindow" /\ valueRet.estimatedMinutes \in 0..MaxEstimate)
        => C22_WindowAroundEstimate

\* C23: Money.Add and Money.Multiply are exact for every pair of
\* representable amounts: the result is the integer sum, or the integer
\* product with the quantity, with no loss, and the operands are unchanged.
C23_ExactArithmetic ==
    /\ valueRet.fn = "Add" =>
          Widen(valueRet.result.amount, WideCount) =
              AddLimbs(Widen(valueRet.m.amount, WideCount),
                       Widen(valueRet.other.amount, WideCount), 0)
    /\ valueRet.fn = "Multiply" =>
          Widen(valueRet.result.amount, WideCount) =
              TimesLimbs(Widen(valueRet.m.amount, WideCount), valueRet.quantity)

C24_Rendering(a) ==
    IF a >= 10000000
    THEN [whole |-> a \div 100000000, fraction |-> Digits(a % 100000000, 8), unit |-> "BTC"]
    ELSE IF a >= 100000
    THEN {[whole |-> t \div 1000, fraction |-> Digits(t % 1000, 3), unit |-> "mBTC"] :
            t \in {u \in (a \div 100)..(a \div 100 + 1) :
                     100 * u - a <= 50 /\ a - 100 * u <= 50}}
    ELSE [whole |-> a, fraction |-> <<>>, unit |-> "sats"]
\* C24: an amount a of at least 10,000,000 satoshis renders as a / 10^8 BTC
\* with 8 decimals, one from 100,000 up to 9,999,999 as a / 10^5 mBTC
\* rounded to 3 decimals, a smaller one as "<a> sats"; 500 is "500 sats",
\* 100000 is "1.000 mBTC" and 10000000 is "0.10000000 BTC".
C24_RenderingThresholds ==
    valueRet.fn = "String" =>
        LET a == valueRet.amount
            text == valueRet.text
        IN /\ a >= 10000000 => text = C24_Rendering(a)
           /\ (a >= 100000 /\ a < 10000000) => text \in C24_Rendering(a)
           /\ a < 100000 => text = C24_Rendering(a)
           /\ a = 500 => text = [whole |-> 500, fraction |-> <<>>, unit |-> "sats"]
           /\ a = 100000 => text = [whole |-> 1, fraction |-> <<0, 0, 0>>, unit |-> "mBTC"]
           /\ a = 10000000 =>
                 text = [whole |-> 0, fraction |-> <<1, 0, 0, 0, 0, 0, 0, 0>>, unit |-> "BTC"]
C24_Witness ==
    /\ valueRet.fn = "String"
    /\ valueRet.amount = 10000000
    /\ valueRet.text.unit = "BTC"

\* C25: an Address is immutable once validated: no operation changes any of
\* its fields, so the address an order holds or an OrderOutForDelivery event
\* carries stays what it was.
C25_AddressImmutable ==
    [][(address # <<>> /\ addressHolders # {}) => address' = address]_vars

C26_Blank(f) == \A i \in 1..Len(f) : f[i] = Space
\* C26: NewAddress succeeds only if street, city, state and postal code are
\* non-empty after trimming (a field of white space only is rejected and no
\* Address is created), an empty country is replaced by the default, and
\* every Address has a non-empty street, city, state and postal code.
C26_RequiredFields ==
    /\ addressRet.fn = "NewAddress" =>
          LET r == addressRet
              anyBlank == \/ C26_Blank(r.street) \/ C26_Blank(r.city)
                          \/ C26_Blank(r.state) \/ C26_Blank(r.postalCode)
          IN /\ (r.err = NoErr) <=> ~anyBlank
             /\ r.err # NoErr => address = <<>>
             /\ (r.err = NoErr /\ r.country = <<>>) => address[1].country = DefaultCountry
    /\ address # <<>> =>
          /\ address[1].street # <<>> /\ address[1].city # <<>>
          /\ address[1].state # <<>> /\ address[1].postalCode # <<>>

\* The stock of the MenuItem is limited: a level of 0 or more.
LimitedStock(m) == ~IsNegLimbs(m.stockLevel)
\* s - q = t and s + q = t as integers, s and t being stock levels.
StockMinus(s, q, t) ==
    Widen(t, WideCount) = SubLimbs(Widen(s, WideCount), Lit(q, WideCount))
StockPlus(s, q, t) ==
    Widen(t, WideCount) = AddLimbs(Widen(s, WideCount), Lit(q, WideCount), 0)

C21_Step ==
    /\ \A i \in 1..Len(orderItems) :
          i <= Len(orderItems') /\ orderItems'[i] = orderItems[i]
    /\ menuOrder # <<>> =>
          /\ menuOrder' # <<>>
          /\ menuOrder'[1].items = menuOrder[1].items
          /\ menuOrder'[1].totalAmount = menuOrder[1].totalAmount
    /\ (menuRet'.op = "UpdatePrice" /\ menuRet'.err = NoErr) =>
          menuItem'.price = NewMoney(menuRet'.price)
    /\ (menuRet'.op = "CreateOrderItem" /\ menuRet'.err = NoErr) =>
          /\ Len(orderItems') = Len(orderItems) + 1
          /\ orderItems'[Len(orderItems')].PricePerItem = menuItem.price
    /\ (menuRet'.op = "NewOrder" /\ menuRet'.err = NoErr) =>
          /\ menuOrder'[1].items = orderItems
          /\ \A i \in 1..Len(orderItems) :
                menuOrder'[1].items[i].PricePerItem = orderItems[i].PricePerItem
\* C21: an order item created by CreateOrderItem carries the price the menu
\* item had at that moment; a later UpdatePrice (like every other call)
\* changes neither the price of the order items already created nor the
\* items and total of an order already created, and items created after the
\* update carry the new price.
C21_PriceSnapshot == [][C21_Step]_vars
C21_Witness ==
    /\ Len(orderItems) = 2
    /\ orderItems[1].PricePerItem = NewMoney(Int64(25000))
    /\ orderItems[2].PricePerItem = NewMoney(Int64(30000))
    /\ menuOrder # <<>>
    /\ menuOrder[1].totalAmount = NewMoney(Int64(50000))
    /\ menuItem.price = NewMoney(Int64(30000))

C27_Step ==
    menuRet'.op = "ReserveStock" =>
        LET q == menuRet'.quantity
            s == menuItem.stockLevel
            e == menuRet'.err
        IN /\ q <= 0 => e = menu_ErrInvalidQuantity
           /\ (q > 0 /\ (~menuItem.isAvailable \/ s = Int64(0))) => e = ErrItemNotAvailable
           /\ (q > 0 /\ menuItem.isAvailable /\ s = Int64(-1)) =>
                 e = NoErr /\ menuItem'.stockLevel = Int64(-1)
           /\ (q > 0 /\ menuItem.isAvailable /\ LimitedStock(menuItem) /\ s # Int64(0)) =>
                 IF LessLimbs(Widen(s, WideCount), Lit(q, WideCount))
                 THEN e = ErrInsufficientStock
                 ELSE e = NoErr /\ StockMinus(s, q, menuItem'.stockLevel)
           /\ e # NoErr => menuItem' = menuItem
           /\ menuItem'.isAvailable = menuItem.isAvailable
\* C27: ReserveStock(q) fails with ErrInvalidQuantity for q <= 0, else with
\* ErrItemNotAvailable when the item is unavailable (flag off or stock 0),
\* else on a limited stock s with ErrInsufficientStock when q > s and
\* otherwise leaves s - q; on unlimited stock (-1) it succeeds and the level
\* stays -1; a failing call leaves stock and availability unchanged.
C27_ReserveStock == [][C27_Step]_vars
C27_Witness ==
    /\ menuRet.op = "ReserveStock"
    /\ menuRet.err = NoErr
    /\ menuRet.before = Int64(3)
    /\ menuRet.quantity = 2
    /\ menuItem.stockLevel = Int64(1)

C28_Step ==
    menuRet'.op = "CreateOrderItem" =>
        LET q == menuRet'.quantity
        IN IF menuRet'.err = NoErr
           THEN /\ menuRet'.orderItem =
                      <<[MenuItemID |-> menuItem.id, MenuItemName |-> menuItem.name,
                         Quantity |-> q, PricePerItem |-> menuItem.price]>>
                /\ orderItems' = orderItems \o menuRet'.orderItem
                /\ IF LimitedStock(menuItem)
                   THEN StockMinus(menuItem.stockLevel, q, menuItem'.stockLevel)
                   ELSE menuItem'.stockLevel = menuItem.stockLevel
                /\ menuItem' = [menuItem EXCEPT !.stockLevel = menuItem'.stockLevel]
           ELSE /\ menuRet'.orderItem = <<>>
                /\ orderItems' = orderItems
                /\ menuItem' = menuItem
\* C28: CreateOrderItem(q) is atomic with respect to stock: a successful call
\* returns an item with the menu item's id, name and current price and the
\* quantity q, and has reserved exactly q; a failing call returns no item and
\* leaves the stock unchanged.
C28_CreateOrderItemAtomic == [][C28_Step]_vars
C28_Witness ==
    /\ menuRet.op = "CreateOrderItem"
    /\ menuRet.err = NoErr
    /\ menuRet.quantity = 2
    /\ menuItem.stockLevel = Int64(1)
    /\ Len(orderItems) = 1
C28_WitnessRefused ==
    /\ menuRet.op = "CreateOrderItem"
    /\ menuRet.err = ErrInsufficientStock
    /\ menuItem.stockLevel = Int64(2)
    /\ orderItems = <<>>

C29_RoundTrip ==
    (/\ menuRet.op = "ReleaseStock"
     /\ menuRet.reservation # <<>>
     /\ menuRet.reservation[1].err = NoErr
     /\ menuRet.reservation[1].quantity = menuRet.quantity
     /\ ~IsNegLimbs(menuRet.reservation[1].before))
        => /\ menuRet.err = NoErr
           /\ menuItem.stockLevel = menuRet.reservation[1].before
C29_Step ==
    menuRet'.op = "ReleaseStock" =>
        /\ (menuRet'.quantity > 0 /\ menuItem.stockLevel = Int64(-1)) =>
              menuRet'.err = NoErr /\ menuItem'.stockLevel = Int64(-1)
        /\ menuRet'.quantity <= 0 =>
              menuRet'.err = menu_ErrInvalidQuantity /\ menuItem' = menuItem
C30_HandlersRunUnlocked ==
    \A k \in DOMAIN publishes :
        \A i \in DOMAIN publishes[k].handlers :
            publishes[k].state[i] = "running" => publishes[k].returned

\* ------------------------------------------------------------------- C38
C38_Dispatched(e) == e.name = "order.out_for_delivery"
\* C38: in every state reached through NewOrder and the transition methods,
\* an order that is OUT_FOR_DELIVERY has the delivery method delivery, every
\* delivery order holds an address, and every OrderOutForDelivery event (in
\* the aggregate's pending events or just returned) carries a non-nil address.
C38_OutForDeliveryHasAddress ==
    /\ order # <<>> =>
          /\ order[1].status = "OUT_FOR_DELIVERY" =>
                order[1].deliveryMethod = DeliveryMethodDelivery
          /\ order[1].deliveryMethod = DeliveryMethodDelivery =>
                order[1].deliveryAddress # <<>>
          /\ \A i \in DOMAIN order[1].events :
                C38_Dispatched(order[1].events[i]) => order[1].events[i].Address # <<>>
    /\ \A i \in DOMAIN ret.events :
          C38_Dispatched(ret.events[i]) => ret.events[i].Address # <<>>
C38_Witness ==
    /\ order # <<>>
    /\ order[1].status = "OUT_FOR_DELIVERY"
    /\ ret.op = "DispatchForDelivery"
    /\ ret.events # <<>>
    /\ C38_Dispatched(ret.events[1])
    /\ ret.events[1].Address = <<Address1>>

\* ------------------------------------------------------------------- C39
C39_Rank(status) ==
    CASE status = "PENDING" -> 0
      [] status = "ACCEPTED" -> 1
      [] status = "PREPARING" -> 2
      [] status = "READY" -> 3
      [] status = "OUT_FOR_DELIVERY" -> 4
      [] OTHER -> 5
C39_Finite ==
    order # <<>> =>
        LET h == order[1].statusHistory
        IN /\ Len(h) <= 5
           /\ \A i \in DOMAIN h : h[i].To # "PENDING"
           /\ \A i \in DOMAIN h : \A j \in DOMAIN h : i # j => h[i].To # h[j].To
C39_Step ==
    (order # <<>> /\ order' # <<>>) =>
        /\ order'[1].status # order[1].status =>
              C39_Rank(order'[1].status) > C39_Rank(order[1].status)
        /\ (Calls("Cancel") /\ order[1].status \notin TerminalStatuses) =>
              ret'.err = NoErr /\ order'[1].status = "CANCELLED"
\* C39: every order lifecycle is finite: a successful transition always moves
\* forward in PENDING, ACCEPTED, PREPARING, READY, OUT_FOR_DELIVERY, terminal,
\* so at most 5 transitions succeed on one order and no status is entered
\* twice; and Cancel succeeds from every non-terminal status.
C39_LifecycleFinite == []C39_Finite /\ [][C39_Step]_vars
C39_Witness ==
    /\ order # <<>>
    /\ Len(order[1].statusHistory) = 5
    /\ order[1].status = "CANCELLED"
    /\ ret.op = "Cancel"
    /\ ret.err = NoErr

\* ------------------------------------------------------------------- C40
\* C40: in every state reached by any sequence of SetStockLevel,
\* ReserveStock, ReleaseStock and CreateOrderItem calls the stock level is
\* at least -1.
C40_StockLevelAtLeastMinusOne ==
    ~LessLimbs(menuItem.stockLevel, Int64(-1))

\* ------------------------------------------------------------------- C31
\* s is an initial part of t.
IsPrefix(s, t) == Len(s) <= Len(t) /\ SubSeq(t, 1, Len(s)) = s
\* Every Subscribe call appends its handler, once, at the end of the list of
\* its topic, and nothing else changes a list.
C31_Step ==
    /\ subscribers' # subscribers =>
          \E c \in BusCallers :
              /\ callers[c].pc = "Lock" /\ callers'[c].pc = "Unlock"
              /\ subscribers' = [subscribers EXCEPT ![callers[c].topic] =
                                    Append(@, callers[c].handler)]
    /\ \A c \in BusCallers :
          (callers[c].pc = "Lock" /\ callers'[c].pc # "Lock") =>
              subscribers'[callers[c].topic] =
                  Append(subscribers[callers[c].topic], callers[c].handler)
C31_RegistrationsKept == [][C31_Step]_vars
\* C31: Subscribe calls racing with each other and with Publish calls lose
\* and duplicate no registration, and once a Publish for topic T is over it
\* has invoked, once, every handler whose Subscribe had returned before the
\* Publish started; a handler whose Subscribe overlaps the Publish has been
\* invoked once or not at all.
C31_SubscribedHandlersInvoked ==
    \A k \in DOMAIN publishes :
        LET p == publishes[k]
        IN /\ IsPrefix(p.handlers, subscribers[p.topic])
           /\ \A i \in DOMAIN p.handlers : p.invoked[i] <= 1
           /\ PublishOver(k) =>
                 /\ Len(p.handlers) >= p.before
                 /\ \A i \in 1..p.before : p.invoked[i] = 1

\* ------------------------------------------------------------------- C33
C33_Step ==
    \A t \in Topics :
        subscribers'[t] # subscribers[t] =>
            /\ \E c \in BusCallers : callers[c].pc = "Lock" /\ callers[c].topic = t
            /\ \A u \in Topics \ {t} : subscribers'[u] = subscribers[u]
C33_OnlyOwnTopic ==
    \A k \in DOMAIN publishes :
        LET p == publishes[k]
        IN /\ IsPrefix(p.handlers, subscribers[p.topic])
           /\ \A i \in DOMAIN p.handlers :
                 p.invoked[i] > 0 => p.handlers[i] = subscribers[p.topic][i]
\* C33: publishing an event of topic T invokes only handlers registered
\* under T (the handlers a Publish works on are those of its own topic's
\* list, never another topic's), and Subscribe on one topic leaves the
\* handler lists of all other topics unchanged.
C33_TopicIsolation == []C33_OnlyOwnTopic /\ [][C33_Step]_vars
\* A Publish to user.created is over, having invoked that topic's one
\* handler, while other.topic has a handler of another kind.
C33_Witness ==
    /\ subscribers["user.created"] = <<"ok">>
    /\ subscribers["other.topic"] = <<"err">>
    /\ publishes # <<>>
    /\ publishes[1].topic = "user.created"
    /\ PublishOver(1)
    /\ publishes[1].invoked = <<1>>
    /\ publishes[1].logged = 0

\* ------------------------------------------------------------------- C32
\* Caller c, inside a handler, waits for a lock that cannot be granted
\* before that handler has returned: the exclusive lock while its own
\* Publish holds the read lock, or the read lock behind a waiting writer
\* that in turn waits for the read lock of c's Publish.
C32_WaitCycle(c) ==
    \/ callers[c].pc = "h.Lock" /\ mu.readers > 0
    \/ callers[c].pc = "h.RLock" /\ mu.readers > 0 /\ mu.waiting > 0
\* C32: a handler that calls Subscribe or Publish on the same bus while it
\* is being invoked always gets to return, also with other callers waiting
\* in Subscribe: no handler ever waits for a lock that its own return is
\* needed to free.
C32_NoWaitCycle == \A c \in BusCallers : ~C32_WaitCycle(c)
\* Once in such a wait a caller stays in it, whatever the others do.
C32_WaitCycleStays ==
    [][\A c \in BusCallers : C32_WaitCycle(c) => C32_WaitCycle(c)']_vars

\* C35: when the owning merchant's MarkOutForDelivery call (made directly or
\* through UpdateOrderStatus with the target OUT_FOR_DELIVERY) on a READY
\* delivery order has returned, it has returned nil and the saved order has
\* the status OUT_FOR_DELIVERY.
C35_MarkOutForDeliverySucceeds ==
    \A q \in UcRequests :
        LET r == requests[q]
        IN (/\ r.pc = "done"
            /\ r.op = "MarkOutForDelivery"
            /\ r.ptr # <<>>
            /\ r.loaded = OrderStatusReady
            /\ heap[r.ptr[1]].deliveryMethod = DeliveryMethodDelivery
            /\ heap[r.ptr[1]].merchantID = r.actor)
           => /\ r.err = NoErr
              /\ heap[orders[heap[r.ptr[1]].id]].status = OrderStatusOutForDelivery

\* C37: in every result of GetMerchantStats the total revenue is the sum of
\* the completed revenue and the pending revenue.
C37_TotalIsCompletedPlusPending ==
    \A q \in UcRequests :
        requests[q].stats # <<>>
        => requests[q].stats[1].TotalRevenue =
              AddLimbs(requests[q].stats[1].CompletedRevenue,
                       requests[q].stats[1].PendingRevenue, 0)

\* C36: every transition operation of the use case loads the order, then
\* calls the aggregate's method, then saves. An order that is not found or a
\* method that returns an error ends the operation with that error and
\* without a Save; Save is called at most once, only after the method has
\* succeeded, and the operation returns what Save returned.
C36_Ordered ==
    \A q \in UcRequests :
        LET r == requests[q]
        IN r.op \in UcTransitionOps
           => /\ r.saves <= 1
              /\ r.method # "" => r.ptr # <<>>
              /\ r.saves = 1 => r.method = MethodOf(r.op)
              /\ (r.pc = "done" /\ r.saved # <<>>) => r.err = r.saved[1]
              /\ (r.pc = "done" /\ r.saved = <<>>) => r.err # NoErr

C36_Step ==
    \A q \in UcRequests :
        LET r == requests[q]
            r2 == requests'[q]
        IN (r.op \in UcTransitionOps /\ r.pc # "done" /\ r2 # r)
           => /\ (r.pc = "load" /\ r2.ptr = <<>>)
                    => r2.pc = "done" /\ r2.err = ErrOrderNotFound /\ r2.saves = 0
              /\ (r.pc = "method" /\ MethodRun(q).err # NoErr)
                    => r2.pc = "done" /\ r2.err = MethodRun(q).err /\ r2.saves = 0
              /\ r2.saves > r.saves
                    => /\ r.pc = "save" /\ r.err = NoErr
                       /\ r.method = MethodOf(r.op) /\ r.ptr # <<>>
                       /\ r2.pc = "done" /\ r2.saves = 1

C36_LoadMethodSave == []C36_Ordered /\ [][C36_Step]_vars

\* Both returns of Save have been seen: one operation saved and returned
\* nil, the other returned the error of its Save.
C36_Witness ==
    /\ requests["request-1"].pc = "done"
    /\ requests["request-1"].op \in UcTransitionOps
    /\ requests["request-1"].saved = <<NoErr>>
    /\ requests["request-2"].pc = "done"
    /\ requests["request-2"].op \in UcTransitionOps
    /\ requests["request-2"].saved = <<ErrSaveFailed>>
    /\ requests["request-2"].err = ErrSaveFailed

\* C34: a RegisterUser call that has saved the user is not held up by a
\* handler of the user-created topic that never returns, and when it has
\* returned it has returned that user and nil, whatever the handlers of the
\* topic returned.
C34_RegistrationUnaffected ==
    \A i \in 1..Len(registers) :
        registers[i].saved
        => /\ registers[i].returned
                => registers[i].err = NoErr /\ registers[i].user = <<registers[i].built>>
           /\ ~registers[i].returned
                => LET p == publishes[registers[i].pub]
                   IN ~(/\ callers[registers[i].caller].pc = "handling"
                        /\ p.handlers[p.next] = "hang")

====
